---- MODULE Spec2Model ----
(***************************************************************************)
(* Model of the safety-gated operation pipeline of the MTK servicing tool: *)
(*   src/mtk_safety.py          MTKSafetySystem  (gate, backup, restore)   *)
(*   src/mtk_device_manager.py  MTKDeviceManager (verify, META, FRP)       *)
(*   src/mtk_reports.py         MTKReportManager (report open / finalize)  *)
(*   src/mtk_tool_main.py       MTKTool          (start_operation)         *)
(*                                                                         *)
(* Every public method is one action.  The device bridge (adb / fastboot)  *)
(* is the environment: each subprocess call draws its outcome from a small *)
(* set, and the action records the commands it issued, in order, in cmds.  *)
(* Python dicts are records; an absent key / None is the value NoneV.      *)
(* A record lists its fields in one fixed order throughout the module, so  *)
(* a dict literal of the source may appear here with its keys permuted.    *)
(***************************************************************************)
EXTENDS Integers, Sequences, FiniteSets, TLC

VARIABLES
    call,            \* the last method called and its arguments
    ret,             \* what that call returned
    cmds,            \* bridge commands issued by that call, in order
    events,          \* pipeline steps taken by that call, in order
    stages,          \* safety-gate stages evaluated by that call, with results
    results,         \* backup_results / restore_results built by that call
    fs,              \* the backup root: directory -> its files
    clock,           \* datetime.now() at one-second resolution
    current_report,  \* MTKReportManager.current_report
    last_report,     \* the report most recently finalized
    current_device,  \* MTKDeviceManager.current_device
    ncalls           \* number of calls made so far

vars == <<call, ret, cmds, events, stages, results, fs, clock,
          current_report, last_report, current_device, ncalls>>

\* ------------------------------------------------------------------ bounds

MaxClock == 2

MaxCalls == 2

MaxOperations == 1

\* --------------------------------------------------------------- constants

NoneV == "None"

critical_partitions == <<"nvram", "boot", "persist", "security", "userdata", "system">>

pre_operation == <<"check_battery", "check_connection", "verify_device_state">>

NPartitions == Len(critical_partitions)

PartitionSet == {critical_partitions[i] : i \in 1..NPartitions}

MinBattery == 20

supported_chipsets == {"MT6789", "MT6833", "MT6853", "MT6873",
                       "MT6885", "MT6889", "MT6893", "MT6895"}

\* ------------------------------------------------------------ device info

DeviceInfos ==
    { [chipset |-> "MT6789", serial |-> "SER1", model |-> "m1", expected_state |-> NoneV],
      [chipset |-> "MT6853", serial |-> "SER1", model |-> "m1", expected_state |-> "fastboot"],
      [chipset |-> "MT9999", serial |-> "SER1", model |-> NoneV, expected_state |-> NoneV],
      [chipset |-> NoneV, serial |-> NoneV, model |-> "m1", expected_state |-> NoneV] }

\* dict.get(key, default)
Get(v, default) == IF v = NoneV THEN default ELSE v

Range(s) == {s[i] : i \in 1..Len(s)}

\* ---------------------------------------------------------------- bridge

Cmd(tool, verb, arg) == [tool |-> tool, verb |-> verb, arg |-> arg]

CmdBattery  == Cmd("adb", "shell cat capacity", "-")
CmdDevices  == Cmd("adb", "devices", "-")
CmdGetState == Cmd("adb", "get-state", "-")
CmdLsParts  == Cmd("adb", "shell ls by-name", "-")
CmdDf       == Cmd("adb", "shell df /data", "-")
CmdDump(p)  == Cmd("adb", "shell dd dump", p)
CmdPull(p)  == Cmd("adb", "pull", p)
CmdPush(p)  == Cmd("adb", "push", p)
CmdWrite(p) == Cmd("adb", "shell dd write", p)
CmdRmTemp   == Cmd("adb", "shell rm temp.img", "-")
CmdRebootRecovery == Cmd("adb", "reboot recovery", "-")

\* What a battery read can produce: a parsed level, or no integer at all
\* (empty output, subprocess fault).
BatteryReads ==
    { [ok |-> TRUE, level |-> l] : l \in {5, 19, 20, 80} } \cup { [ok |-> FALSE, level |-> 0] }

\* adb devices: a fault, or an exit code and the serials printed.
DevicesReads ==
    { [fault |-> FALSE, rc |-> r, serials |-> s] : r \in {0, 1}, s \in {{}, {"SER1"}} }
    \cup { [fault |-> TRUE, rc |-> 1, serials |-> {}] }

\* adb get-state: the token printed ("" when nothing is printed), or a fault.
Faulted == "<fault>"

StateTokens == {"device", "recovery", "fastboot", "sideload", "offline", ""}

StateReads == StateTokens \cup {Faulted}

\* adb shell ls /dev/block/by-name/: fault, exit code, names listed.
LsReads ==
    { [fault |-> FALSE, rc |-> 0, names |-> PartitionSet],
      [fault |-> FALSE, rc |-> 0, names |-> PartitionSet \ {"persist"}],
      [fault |-> FALSE, rc |-> 0, names |-> PartitionSet \ {"boot", "system"}],
      [fault |-> FALSE, rc |-> 1, names |-> {}],
      [fault |-> TRUE, rc |-> 1, names |-> {}] }

\* A size token of df -h: a decimal number in tenths and a one-letter unit;
\* numeric = FALSE when the text before the unit is not a number.
SizeStr(numeric, tenths, unit) == [numeric |-> numeric, tenths |-> tenths, unit |-> unit]

NoSize == SizeStr(FALSE, 0, "-")

\* adb shell df -h /data: fault, exit code, number of output lines, number of
\* columns of the second line, and its fourth column.
DfReads ==
    { [fault |-> FALSE, rc |-> 0, lines |-> 2, cols |-> 6, avail |-> a] :
        a \in { SizeStr(TRUE, 25, "G"), SizeStr(TRUE, 24, "G"), SizeStr(TRUE, 25200, "M"),
                SizeStr(TRUE, 25190, "M"), SizeStr(TRUE, 30000000, "k"),
                SizeStr(FALSE, 0, "s") } }
    \cup { [fault |-> FALSE, rc |-> 0, lines |-> 1, cols |-> 0, avail |-> NoSize],
           [fault |-> FALSE, rc |-> 0, lines |-> 2, cols |-> 3, avail |-> NoSize],
           [fault |-> FALSE, rc |-> 1, lines |-> 0, cols |-> 0, avail |-> NoSize],
           [fault |-> TRUE, rc |-> 1, lines |-> 0, cols |-> 0, avail |-> NoSize] }

\* ------------------------------------------------------------- safety gate

\* f"{n}%": the decimal text of n followed by a percent sign.
Percent(n) == <<n, "%">>

\* The literal "20%" of the battery stage's failure result.
RequiredBatteryText == Percent(20)

\* What check_safety's own except clause returns.
_handle_safety_error(error) ==
    [error |-> error, safe |-> FALSE, message |-> "Safety check failed"]

\* A battery stage that also turns away a level equal to the threshold.
_check_battery_inclusive(device_info, r) ==
    IF ~r.ok
    THEN [safe |-> FALSE, message |-> "Could not check battery"]
    ELSE IF r.level <= MinBattery
         THEN [safe |-> FALSE, message |-> "Battery level too low",
               required |-> RequiredBatteryText, current |-> Percent(r.level)]
         ELSE [safe |-> TRUE]

\* r.ok is false when the read raised or int() found no integer.
_check_battery(device_info, r) ==
    IF ~r.ok
    THEN [safe |-> FALSE, message |-> "Could not check battery"]
    ELSE IF r.level < MinBattery
         THEN [safe |-> FALSE, message |-> "Battery level too low",
               required |-> RequiredBatteryText, current |-> Percent(r.level)]
         ELSE [safe |-> TRUE]

_check_connection(device_info, r) ==
    IF r.fault \/ device_info.serial = NoneV
    THEN [safe |-> FALSE, message |-> "Connection check failed"]
    ELSE IF device_info.serial \notin r.serials
         THEN [safe |-> FALSE, message |-> "Device not connected"]
         ELSE [safe |-> TRUE]

\* A device-state stage without its own except clause: a fault in the read
\* reaches check_safety's handler.
_verify_device_state_unhandled(device_info, r) ==
    IF r = Faulted
    THEN _handle_safety_error("fault")
    ELSE LET expected_state == Get(device_info.expected_state, "device")
         IN  IF r # expected_state
             THEN [safe |-> FALSE, message |-> "Device in wrong state",
                   state |-> r, expected |-> expected_state]
             ELSE [safe |-> TRUE]

_verify_device_state(device_info, r) ==
    IF r = Faulted
    THEN [safe |-> FALSE, message |-> "Could not verify device state"]
    ELSE LET expected_state == Get(device_info.expected_state, "device")
         IN  IF r # expected_state
             THEN [safe |-> FALSE, message |-> "Device in wrong state",
                   state |-> r, expected |-> expected_state]
             ELSE [safe |-> TRUE]

\* The first critical partition (canonical order) not in names; 0 if none.
RECURSIVE FirstMissing(_, _)
FirstMissing(names, i) ==
    IF i > NPartitions THEN 0
    ELSE IF critical_partitions[i] \notin names THEN i
    ELSE FirstMissing(names, i + 1)

_check_critical_partitions(device_info, r) ==
    IF r.fault
    THEN [safe |-> FALSE, message |-> "Critical partition check failed"]
    ELSE IF r.rc # 0
         THEN [safe |-> FALSE, message |-> "Could not access partitions"]
         ELSE LET m == FirstMissing(r.names, 1)
              IN  IF m # 0
                  THEN [safe |-> FALSE, message |-> "Critical partition not found",
                        partition |-> critical_partitions[m]]
                  ELSE [safe |-> TRUE]

\* int(x) for the rational x = n / d, d > 0: truncation toward zero.
IntOf(n, d) == IF n >= 0 THEN n \div d ELSE -((-n) \div d)

\* _convert_to_mb comparing the unit without upper().
_convert_to_mb_case_sensitive(size_str) ==
    IF ~size_str.numeric THEN 0
    ELSE IF size_str.unit = "G" THEN IntOf(size_str.tenths * 1024, 10)
    ELSE IF size_str.unit = "M" THEN IntOf(size_str.tenths, 10)
    ELSE IF size_str.unit = "K" THEN IntOf(size_str.tenths, 10240)
    ELSE 0

\* int(float(size_str[:-1]) * factor), 0 when float() raises: the number is
\* held in tenths, the last character is the unit.
_convert_to_mb(size_str) ==
    IF ~size_str.numeric THEN 0
    ELSE IF size_str.unit \in {"G", "g"} THEN IntOf(size_str.tenths * 1024, 10)
    ELSE IF size_str.unit \in {"M", "m"} THEN IntOf(size_str.tenths, 10)
    ELSE IF size_str.unit \in {"K", "k"} THEN IntOf(size_str.tenths, 10240)
    ELSE 0

_calculate_required_space(device_info) ==
    LET base_space == 500
        partition_space == NPartitions * 100
        extra_space == IF "userdata" \in PartitionSet THEN 1000 ELSE 0
        total_required == base_space + partition_space + extra_space
    IN  (total_required * 12) \div 10

\* A storage stage that also turns away exactly the required space.
_check_backup_availability_inclusive(device_info, r) ==
    IF r.fault
    THEN [safe |-> FALSE, message |-> "Backup availability check failed"]
    ELSE IF r.rc # 0
         THEN [safe |-> FALSE, message |-> "Could not check storage space"]
         ELSE IF r.lines < 2 \/ r.cols < 4
              THEN [safe |-> FALSE, message |-> "Invalid storage info format"]
              ELSE LET available_space == _convert_to_mb(r.avail)
                       required_space == _calculate_required_space(device_info)
                   IN  IF available_space <= required_space
                       THEN [safe |-> FALSE, message |-> "Insufficient storage space",
                             need |-> required_space, have |-> available_space]
                       ELSE [safe |-> TRUE]

\* need, have: the two numbers of the message
\* f"Insufficient storage space. Need {required_space}MB, have {available_space}MB".
_check_backup_availability(device_info, r) ==
    IF r.fault
    THEN [safe |-> FALSE, message |-> "Backup availability check failed"]
    ELSE IF r.rc # 0
         THEN [safe |-> FALSE, message |-> "Could not check storage space"]
         ELSE IF r.lines < 2 \/ r.cols < 4
              THEN [safe |-> FALSE, message |-> "Invalid storage info format"]
              ELSE LET available_space == _convert_to_mb(r.avail)
                       required_space == _calculate_required_space(device_info)
                   IN  IF available_space < required_space
                       THEN [safe |-> FALSE, message |-> "Insufficient storage space",
                             need |-> required_space, have |-> available_space]
                       ELSE [safe |-> TRUE]

\* The bridge responses one run of the gate may consume, one per stage.
GateEnv(b, d, s, l, f) == [state |-> s, battery |-> b, devices |-> d, ls |-> l, df |-> f]

GoodBattery == [ok |-> TRUE, level |-> 80]

GoodDevices == [fault |-> FALSE, rc |-> 0, serials |-> {"SER1"}]

GoodLs == [fault |-> FALSE, rc |-> 0, names |-> PartitionSet]

GoodDf == [fault |-> FALSE, rc |-> 0, lines |-> 2, cols |-> 6, avail |-> SizeStr(TRUE, 25, "G")]

BadDevices == [fault |-> FALSE, rc |-> 0, serials |-> {}]

BadLs == [fault |-> FALSE, rc |-> 0, names |-> PartitionSet \ {"persist"}]

BadDf == [fault |-> FALSE, rc |-> 0, lines |-> 2, cols |-> 6, avail |-> SizeStr(TRUE, 24, "G")]

\* One stage's read ranges over everything it can be; the reads before it
\* are ones that stage accepts, the reads after it are good or bad.
GateEnvs ==
    { GateEnv(b, d, s, l, f) : b \in BatteryReads, d \in {GoodDevices, BadDevices},
        s \in {"device", "offline"}, l \in {GoodLs, BadLs}, f \in {GoodDf, BadDf} }
    \cup { GateEnv(GoodBattery, d, s, l, f) : d \in DevicesReads,
        s \in {"device", "fastboot"}, l \in {GoodLs, BadLs}, f \in {GoodDf, BadDf} }
    \cup { GateEnv(GoodBattery, GoodDevices, s, l, f) : s \in StateReads,
        l \in {GoodLs, BadLs}, f \in {GoodDf, BadDf} }
    \cup { GateEnv(GoodBattery, GoodDevices, s, l, f) : s \in {"device", "fastboot"},
        l \in LsReads, f \in DfReads }

\* getattr(self, f"_{check}")(device_info) and the command the stage issues.
PreOpCheck(check, device_info, e) ==
    CASE check = "check_battery" -> _check_battery(device_info, e.battery)
      [] check = "check_connection" -> _check_connection(device_info, e.devices)
      [] check = "verify_device_state" -> _verify_device_state(device_info, e.state)

StageCmd(check) ==
    CASE check = "check_battery" -> CmdBattery
      [] check = "check_connection" -> CmdDevices
      [] check = "verify_device_state" -> CmdGetState
      [] check = "check_critical_partitions" -> CmdLsParts
      [] check = "check_backup_availability" -> CmdDf

Stage(check, result) == [check |-> check, result |-> result]

\* A finished run of the gate: what it returns, the stages it evaluated and
\* the commands it issued.
GateRun(result, st) ==
    [cmds |-> [i \in 1..Len(st) |-> StageCmd(st[i].check)], stages |-> st,
     result |-> result]

\* The pre-operation loop without the return on a failing check.
RECURSIVE PreOpLoop_no_return(_, _, _, _)
PreOpLoop_no_return(device_info, e, i, st) ==
    IF i > Len(pre_operation)
    THEN [stages |-> st, failed |-> FALSE]
    ELSE PreOpLoop_no_return(device_info, e, i + 1,
            Append(st, Stage(pre_operation[i], PreOpCheck(pre_operation[i], device_info, e))))

\* The for-loop over safety_checks["pre_operation"], from index i on.
RECURSIVE PreOpLoop(_, _, _, _)
PreOpLoop(device_info, e, i, st) ==
    IF i > Len(pre_operation)
    THEN [stages |-> st, failed |-> FALSE]
    ELSE LET result == PreOpCheck(pre_operation[i], device_info, e)
             st2 == Append(st, Stage(pre_operation[i], result))
         IN  IF ~result.safe
             THEN [stages |-> st2, failed |-> TRUE]
             ELSE PreOpLoop(device_info, e, i + 1, st2)

check_safety(device_info, e) ==
    LET pre == PreOpLoop(device_info, e, 1, << >>)
    IN  IF pre.failed
        THEN GateRun(pre.stages[Len(pre.stages)].result, pre.stages)
        ELSE LET partition_check == _check_critical_partitions(device_info, e.ls)
                 st4 == Append(pre.stages, Stage("check_critical_partitions", partition_check))
             IN  IF ~partition_check.safe
                 THEN GateRun(partition_check, st4)
                 ELSE LET backup_check == _check_backup_availability(device_info, e.df)
                          st5 == Append(st4, Stage("check_backup_availability", backup_check))
                      IN  IF ~backup_check.safe
                          THEN GateRun(backup_check, st5)
                          ELSE GateRun([safe |-> TRUE, message |-> "All safety checks passed"],
                                       st5)

\* ------------------------------------------------------- backup storage

\* A backup directory is {model}_{timestamp} under the backup root.
ModelNames == {Get(d.model, "unknown") : d \in DeviceInfos}

Dirs == ModelNames \X (1..MaxClock)

\* backup_info.json: absent, unreadable (not JSON, or no "partitions" key),
\* or readable with its list of partitions.
Manifest(state, partitions) == [state |-> state, partitions |-> partitions]

NoManifest == Manifest("absent", << >>)

\* verification.json: whether it exists, its "verified" flag and the
\* partitions its "results" map has an entry for.
Verification(present, verified, entries) ==
    [present |-> present, verified |-> verified, entries |-> entries]

NoVerification == Verification(FALSE, FALSE, {})

NoDir == [exists |-> FALSE, manifest |-> NoManifest,
          verification |-> NoVerification, imgs |-> {}]

_get_backup_path(device_info, now) == <<Get(device_info.model, "unknown"), now>>

\* One partition's bridge outcomes during a backup:
\*   ok         dd, pull and rm all ran, dd and pull exited 0
\*   dd_fail    dd exited non-zero
\*   pull_fail  pull exited non-zero
\*   fault      subprocess.run raised at the dd
BackupOutcomes == {"ok", "dd_fail", "pull_fail", "fault"}

\* A partition backup that pulls the temporary file before dumping into it.
_backup_partition_pull_first(device_info, partition, backup_path, outcome) ==
    CASE outcome \in {"fault", "pull_fail"} ->
            [cmds |-> <<CmdPull(partition)>>,
             result |-> [error |-> outcome, success |-> FALSE], pulled |-> FALSE]
      [] outcome = "dd_fail" ->
            [cmds |-> <<CmdPull(partition), CmdDump(partition)>>,
             result |-> [error |-> "dd_fail", success |-> FALSE], pulled |-> TRUE]
      [] outcome = "ok" ->
            [cmds |-> <<CmdPull(partition), CmdDump(partition), CmdRmTemp>>,
             result |-> [success |-> TRUE, path |-> <<backup_path, partition>>],
             pulled |-> TRUE]

\* A partition backup that deletes the temporary file on every path.
_backup_partition_always_cleans(device_info, partition, backup_path, outcome) ==
    CASE outcome = "fault" ->
            [cmds |-> <<CmdDump(partition), CmdRmTemp>>,
             result |-> [error |-> "fault", success |-> FALSE], pulled |-> FALSE]
      [] outcome = "dd_fail" ->
            [cmds |-> <<CmdDump(partition), CmdRmTemp>>,
             result |-> [error |-> "dd_fail", success |-> FALSE], pulled |-> FALSE]
      [] outcome = "pull_fail" ->
            [cmds |-> <<CmdDump(partition), CmdPull(partition), CmdRmTemp>>,
             result |-> [error |-> "pull_fail", success |-> FALSE], pulled |-> FALSE]
      [] outcome = "ok" ->
            [cmds |-> <<CmdDump(partition), CmdPull(partition), CmdRmTemp>>,
             result |-> [success |-> TRUE, path |-> <<backup_path, partition>>],
             pulled |-> TRUE]

_backup_partition(device_info, partition, backup_path, outcome) ==
    CASE outcome = "fault" ->
            [cmds |-> <<CmdDump(partition)>>,
             result |-> [error |-> "fault", success |-> FALSE], pulled |-> FALSE]
      [] outcome = "dd_fail" ->
            [cmds |-> <<CmdDump(partition)>>,
             result |-> [error |-> "dd_fail", success |-> FALSE], pulled |-> FALSE]
      [] outcome = "pull_fail" ->
            [cmds |-> <<CmdDump(partition), CmdPull(partition)>>,
             result |-> [error |-> "pull_fail", success |-> FALSE], pulled |-> FALSE]
      [] outcome = "ok" ->
            [cmds |-> <<CmdDump(partition), CmdPull(partition), CmdRmTemp>>,
             result |-> [success |-> TRUE, path |-> <<backup_path, partition>>],
             pulled |-> TRUE]

\* What _check_recovery_possible reads: adb devices (fault, or whether the
\* output contains "device"), then adb reboot recovery (fault or exit code).
RecoveryReads ==
    { [devices |-> "fault", reboot |-> "-"], [devices |-> "no device", reboot |-> "-"],
      [devices |-> "device", reboot |-> "ok"], [devices |-> "device", reboot |-> "fail"],
      [devices |-> "device", reboot |-> "fault"] }

\* A recovery probe that only lists the devices.
_check_recovery_possible_no_reboot(r) ==
    [cmds |-> <<CmdDevices>>, value |-> (r.devices = "device")]

_check_recovery_possible(r) ==
    IF r.devices # "device"
    THEN [cmds |-> <<CmdDevices>>, value |-> FALSE]
    ELSE [cmds |-> <<CmdDevices, CmdRebootRecovery>>, value |-> (r.reboot = "ok")]

_handle_backup_error(r) ==
    LET can_recover == _check_recovery_possible(r)
    IN  [cmds |-> can_recover.cmds,
         result |-> [error |-> "fault", message |-> "Backup operation failed",
                     status |-> "error", recoverable |-> can_recover.value]]

\* A manifest that names a partition the backup loop never dumps.
_create_backup_info_extra(dir) ==
    [dir EXCEPT !.manifest = Manifest("ok", Append(critical_partitions, "recovery"))]

_create_backup_info(dir) ==
    [dir EXCEPT !.manifest = Manifest("ok", critical_partitions)]

AllSuccess(rs) == \A i \in 1..Len(rs) : rs[i].result.success

_create_verification_file(dir, rs) ==
    [dir EXCEPT !.verification =
        Verification(TRUE, AllSuccess(rs), {rs[i].partition : i \in 1..Len(rs)})]

\* A finished run of create_backup.
BackupRun(result, c, ev, rs, dir) ==
    [cmds |-> c, events |-> ev, results |-> rs, result |-> result, dir |-> dir]

\* The steps a list of commands adds to events: each command's verb.
Steps(c) == [j \in 1..Len(c) |-> c[j].verb]

\* The for-loop over critical_partitions, from index i on; e.parts[i] is the
\* bridge outcome for partition i.  ev lists the file writes and the
\* commands of the loop in the order they happen.
RECURSIVE BackupLoop(_, _, _, _, _, _, _, _)
BackupLoop(device_info, backup_path, e, i, rs, c, ev, dir) ==
    IF i > NPartitions
    THEN IF e.fault = "verification"
         THEN LET h == _handle_backup_error(e.recovery)
              IN  BackupRun(h.result, c \o h.cmds, Append(ev, "handle_backup_error"), rs, dir)
         ELSE BackupRun([results |-> rs, backup_path |-> backup_path, status |-> "success"],
                        c, Append(ev, "write verification.json"), rs,
                        _create_verification_file(dir, rs))
    ELSE LET partition == critical_partitions[i]
             b == _backup_partition(device_info, partition, backup_path, e.parts[i])
             rs2 == Append(rs, [partition |-> partition, result |-> b.result])
             dir2 == IF b.pulled THEN [dir EXCEPT !.imgs = @ \cup {partition}] ELSE dir
             ev2 == ev \o Steps(b.cmds)
         IN  IF ~b.result.success
             THEN BackupRun([message |-> "Backup failed for", partition |-> partition,
                             status |-> "error", details |-> b.result],
                            c \o b.cmds, ev2, rs2, dir2)
             ELSE BackupLoop(device_info, backup_path, e, i + 1, rs2, c \o b.cmds, ev2, dir2)

\* create_backup writing verification.json whatever the loop returned.
create_backup_always_verifies(device_info, e, dir, now) ==
    LET run == BackupLoop(device_info, _get_backup_path(device_info, now), e, 1, << >>, << >>,
                          <<"makedirs", "write backup_info.json">>,
                          _create_backup_info([dir EXCEPT !.exists = TRUE]))
    IN  [run EXCEPT !.dir = _create_verification_file(run.dir, run.results),
                    !.events = Append(run.events, "write verification.json")]

\* e.fault: where an I/O fault strikes, if anywhere:
\*   makedirs       os.makedirs raises
\*   manifest_open  open(backup_info.json) raises: the file is left as it was
\*   manifest_dump  json.dump raises after the file was truncated
\*   verification   open(verification.json) raises
create_backup(device_info, e, dir, now) ==
    LET backup_path == _get_backup_path(device_info, now)
        made == [dir EXCEPT !.exists = TRUE]
    IN  IF e.fault = "makedirs"
        THEN LET h == _handle_backup_error(e.recovery)
             IN  BackupRun(h.result, h.cmds, <<"handle_backup_error">>, << >>, dir)
        ELSE IF e.fault = "manifest_open"
        THEN LET h == _handle_backup_error(e.recovery)
             IN  BackupRun(h.result, h.cmds, <<"makedirs", "handle_backup_error">>, << >>, made)
        ELSE IF e.fault = "manifest_dump"
        THEN LET h == _handle_backup_error(e.recovery)
             IN  BackupRun(h.result, h.cmds, <<"makedirs", "handle_backup_error">>, << >>,
                           [made EXCEPT !.manifest = Manifest("unreadable", << >>)])
        ELSE BackupLoop(device_info, backup_path, e, 1, << >>, << >>,
                        <<"makedirs", "write backup_info.json">>,
                        _create_backup_info(made))

\* Bridge outcomes of one backup run: partition k fails in one of the ways
\* (k = 0: none does) and the partitions after it would behave as rest.
PartOutcomes(k, kind, rest) ==
    [i \in 1..NPartitions |-> IF i = k THEN kind ELSE IF i > k /\ k > 0 THEN rest ELSE "ok"]

NoRecovery == [devices |-> "no device", reboot |-> "-"]

BackupEnvs ==
    { [fault |-> "none", recovery |-> NoRecovery, parts |-> PartOutcomes(k, kind, "ok")] :
        k \in 0..NPartitions, kind \in BackupOutcomes \ {"ok"} }
    \cup { [fault |-> f, recovery |-> r, parts |-> PartOutcomes(0, "ok", "ok")] :
        f \in {"makedirs", "manifest_open", "manifest_dump", "verification"},
        r \in {NoRecovery, [devices |-> "device", reboot |-> "ok"]} }

\* ------------------------------------------------------------- restore

\* An integrity check that never looks for verification.json.
_verify_backup_integrity_no_verification(dir) ==
    /\ dir.manifest.state = "ok"
    /\ \A i \in 1..Len(dir.manifest.partitions) : dir.manifest.partitions[i] \in dir.imgs

_verify_backup_integrity(dir) ==
    IF dir.manifest.state = "absent" THEN FALSE
    ELSE IF ~dir.verification.present THEN FALSE
    ELSE IF dir.manifest.state = "unreadable" THEN FALSE
    ELSE \A i \in 1..Len(dir.manifest.partitions) : dir.manifest.partitions[i] \in dir.imgs

\* One partition's bridge outcomes during a restore.
RestoreOutcomes == {"ok", "push_fail", "dd_fail", "fault"}

\* A partition restore that pushes the image a second time when the push
\* failed.
_restore_partition_retry(device_info, partition, dir, outcome) ==
    IF partition \notin dir.imgs
    THEN [cmds |-> << >>, result |-> [error |-> "Backup file not found", success |-> FALSE]]
    ELSE CASE outcome \in {"fault", "push_fail"} ->
                 [cmds |-> <<CmdPush(partition), CmdPush(partition)>>,
                  result |-> [error |-> outcome, success |-> FALSE]]
           [] outcome = "dd_fail" ->
                 [cmds |-> <<CmdPush(partition), CmdWrite(partition), CmdRmTemp>>,
                  result |-> [error |-> "dd_fail", success |-> FALSE]]
           [] outcome = "ok" ->
                 [cmds |-> <<CmdPush(partition), CmdWrite(partition), CmdRmTemp>>,
                  result |-> [success |-> TRUE]]

_restore_partition(device_info, partition, dir, outcome) ==
    IF partition \notin dir.imgs
    THEN [cmds |-> << >>, result |-> [error |-> "Backup file not found", success |-> FALSE]]
    ELSE CASE outcome = "fault" ->
                 [cmds |-> <<CmdPush(partition)>>,
                  result |-> [error |-> "fault", success |-> FALSE]]
           [] outcome = "push_fail" ->
                 [cmds |-> <<CmdPush(partition)>>,
                  result |-> [error |-> "push_fail", success |-> FALSE]]
           [] outcome = "dd_fail" ->
                 [cmds |-> <<CmdPush(partition), CmdWrite(partition), CmdRmTemp>>,
                  result |-> [error |-> "dd_fail", success |-> FALSE]]
           [] outcome = "ok" ->
                 [cmds |-> <<CmdPush(partition), CmdWrite(partition), CmdRmTemp>>,
                  result |-> [success |-> TRUE]]

\* A finished run of restore_backup.
RestoreRun(result, c, ev, rs) == [cmds |-> c, events |-> ev, results |-> rs, result |-> result]

RECURSIVE RestoreLoop(_, _, _, _, _, _)
RestoreLoop(device_info, dir, e, i, rs, c) ==
    IF i > NPartitions
    THEN RestoreRun([results |-> rs, message |-> "Backup restored successfully",
                     status |-> "success"], c, <<"verify_backup_integrity">>, rs)
    ELSE LET partition == critical_partitions[i]
             r == _restore_partition(device_info, partition, dir, e.parts[i])
             rs2 == Append(rs, [partition |-> partition, result |-> r.result])
         IN  IF ~r.result.success
             THEN RestoreRun([message |-> "Restore failed for", partition |-> partition,
                              status |-> "error", details |-> r.result],
                             c \o r.cmds, <<"verify_backup_integrity">>, rs2)
             ELSE RestoreLoop(device_info, dir, e, i + 1, rs2, c \o r.cmds)

\* restore_backup without the integrity check.
restore_backup_unchecked(dir, device_info, e) ==
    RestoreLoop(device_info, dir, e, 1, << >>, << >>)

restore_backup(dir, device_info, e) ==
    IF ~_verify_backup_integrity(dir)
    THEN RestoreRun([message |-> "Backup integrity check failed", status |-> "error"],
                    << >>, <<"verify_backup_integrity">>, << >>)
    ELSE RestoreLoop(device_info, dir, e, 1, << >>, << >>)

RestoreEnvs ==
    { [parts |-> PartOutcomes(k, kind, rest)] :
        k \in 0..NPartitions, kind \in RestoreOutcomes \ {"ok"}, rest \in {"ok", "dd_fail"} }

\* ------------------------------------------------------- device manager

meta_commands(chipset) == <<Cmd("adb", "reboot meta", "-"), Cmd("meta_mode", "--force", "-")>>

frp_commands(chipset) ==
    CASE chipset = "MT6789" ->
            <<Cmd("fastboot", "erase", "frp"), Cmd("fastboot", "erase", "config"),
              Cmd("fastboot", "reboot", "-")>>
      [] chipset = "MT6833" ->
            <<Cmd("fastboot", "erase", "frp"), Cmd("fastboot", "erase", "persist"),
              Cmd("fastboot", "reboot", "-")>>
      [] OTHER ->
            <<Cmd("fastboot", "erase", "frp"), Cmd("fastboot", "erase", "config"),
              Cmd("fastboot", "erase", "persist"), Cmd("fastboot", "reboot", "-")>>

CmdGetvarFrp == Cmd("fastboot", "getvar", "frp")

_verify_chipset(chipset) == chipset \in supported_chipsets

\* What _verify_connection meets: whether adb is on the PATH, and what
\* adb devices (timeout 10) does: a DevicesReads record, or a timeout.
TimedOut == [fault |-> TRUE, rc |-> 124, serials |-> {}]

VerifyEnvs ==
    { [devices |-> d, adb_exists |-> TRUE] : d \in DevicesReads \cup {TimedOut} }
    \cup { [devices |-> TimedOut, adb_exists |-> FALSE] }

_verify_connection(device_info, e) ==
    IF ~e.adb_exists
    THEN [cmds |-> << >>, status |-> [error |-> "ADB not found.", connected |-> FALSE]]
    ELSE LET c == <<CmdDevices>>
         IN  IF e.devices = TimedOut
             THEN [cmds |-> c,
                   status |-> [error |-> "Connection check timed out.", connected |-> FALSE]]
             ELSE IF e.devices.fault
             THEN [cmds |-> c, status |-> [error |-> "fault", connected |-> FALSE]]
             ELSE IF e.devices.rc # 0
             THEN [cmds |-> c,
                   status |-> [error |-> "ADB devices command failed.", connected |-> FALSE]]
             ELSE IF device_info.serial = NoneV
             THEN [cmds |-> c, status |-> [error |-> "TypeError", connected |-> FALSE]]
             ELSE IF device_info.serial \notin e.devices.serials
             THEN [cmds |-> c,
                   status |-> [error |-> "Device serial not found.", connected |-> FALSE]]
             ELSE [cmds |-> c, status |-> [connected |-> TRUE]]

\* result: what verify_device returns; stored: whether current_device is set.
verify_device(device_info, e) ==
    IF ~_verify_chipset(device_info.chipset)
    THEN [cmds |-> << >>,
          result |-> [message |-> "Unsupported chipset", verified |-> FALSE,
                      details |-> device_info.chipset], stored |-> FALSE]
    ELSE LET connection_status == _verify_connection(device_info, e)
         IN  IF ~connection_status.status.connected
             THEN [cmds |-> connection_status.cmds,
                   result |-> [message |-> "Device connection failed", verified |-> FALSE,
                               details |-> connection_status.status.error], stored |-> FALSE]
             ELSE [cmds |-> connection_status.cmds,
                   result |-> [message |-> "Device verified successfully", device_info |-> device_info,
                               verified |-> TRUE], stored |-> TRUE]

\* DeviceState
DeviceStates == {"UNKNOWN", "NORMAL", "META", "FASTBOOT", "RECOVERY"}

\* A state_map that has an entry for DeviceState.META.
_get_device_state_with_meta(r) ==
    CASE r = "device" -> "NORMAL"
      [] r = "recovery" -> "RECOVERY"
      [] r = "fastboot" -> "FASTBOOT"
      [] r = "meta" -> "META"
      [] OTHER -> "UNKNOWN"

\* state_map.get(result.stdout.strip(), DeviceState.UNKNOWN); UNKNOWN on a fault.
_get_device_state(r) ==
    CASE r = "device" -> "NORMAL"
      [] r = "recovery" -> "RECOVERY"
      [] r = "fastboot" -> "FASTBOOT"
      [] r = "sideload" -> "UNKNOWN"
      [] OTHER -> "UNKNOWN"

\* int(result.stdout.strip()), 0 on any fault.
_get_battery_level(r) == IF r.ok THEN r.level ELSE 0

\* One command's fate in _execute_command:
\*   ok       exit code 0            ok_empty  exit code 0, "empty" in stdout
\*   fail     exit code non-zero     fail_empty  non-zero, "empty" in stdout
\*   timeout  TimeoutExpired after 20 s
\*   fault    subprocess.run raised
\*   no_tool  adb / fastboot named in the command is not on the PATH
ExecOutcomes == {"ok", "ok_empty", "fail", "fail_empty", "timeout", "fault", "no_tool"}

NeedsTool(cmd) == cmd.tool \in {"adb", "fastboot"}

\* _execute_command without the checks that the tool is on the PATH.
_execute_command_no_tool_check(cmd, outcome) ==
    CASE outcome \in {"ok", "ok_empty"} ->
            [result |-> [success |-> TRUE,
                         stdout |-> IF outcome = "ok_empty" THEN "empty" ELSE ""],
             ran |-> TRUE]
      [] outcome \in {"fail", "fail_empty"} ->
            [result |-> [message |-> "Command failed", success |-> FALSE, cmd |-> cmd,
                         stdout |-> IF outcome = "fail_empty" THEN "empty" ELSE "",
                         stderr |-> ""],
             ran |-> TRUE]
      [] outcome = "timeout" ->
            [result |-> [message |-> "Command timed out", success |-> FALSE, cmd |-> cmd],
             ran |-> TRUE]
      [] OTHER ->
            [result |-> [message |-> "Command error", success |-> FALSE], ran |-> TRUE]

\* result: the dict returned; ran: whether subprocess.run was reached.
_execute_command(cmd, outcome) ==
    IF outcome = "no_tool" /\ NeedsTool(cmd)
    THEN [result |-> [tool |-> cmd.tool, message |-> "not found", success |-> FALSE],
          ran |-> FALSE]
    ELSE CASE outcome \in {"ok", "ok_empty"} ->
                 [result |-> [success |-> TRUE,
                              stdout |-> IF outcome = "ok_empty" THEN "empty" ELSE ""],
                  ran |-> TRUE]
           [] outcome \in {"fail", "fail_empty"} ->
                 [result |-> [message |-> "Command failed", success |-> FALSE, cmd |-> cmd,
                              stdout |-> IF outcome = "fail_empty" THEN "empty" ELSE "",
                              stderr |-> ""],
                  ran |-> TRUE]
           [] outcome = "timeout" ->
                 [result |-> [message |-> "Command timed out", success |-> FALSE, cmd |-> cmd],
                  ran |-> TRUE]
           [] OTHER ->
                 [result |-> [message |-> "Command error", success |-> FALSE], ran |-> TRUE]

\* A finished run of a device-manager handler.
DevRun(result, c) == [cmds |-> c, result |-> result]

\* A command loop that goes on after a failure and reports the first one.
RECURSIVE CommandLoop_run_all(_, _, _, _)
CommandLoop_run_all(commands, e, i, c) ==
    IF i > Len(commands)
    THEN [cmds |-> c, result |-> [success |-> TRUE, stdout |-> ""], failed |-> FALSE]
    ELSE LET x == _execute_command(commands[i], e.cmds[i])
             c2 == IF x.ran THEN Append(c, commands[i]) ELSE c
             rest == CommandLoop_run_all(commands, e, i + 1, c2)
         IN  IF ~x.result.success
             THEN [cmds |-> rest.cmds, result |-> x.result, failed |-> TRUE]
             ELSE rest

\* for cmd in commands: result = _execute_command(cmd); stop at the first
\* failure.  e.cmds[i] is the fate of the i-th command.
RECURSIVE CommandLoop(_, _, _, _)
CommandLoop(commands, e, i, c) ==
    IF i > Len(commands)
    THEN [cmds |-> c, result |-> [success |-> TRUE, stdout |-> ""], failed |-> FALSE]
    ELSE LET x == _execute_command(commands[i], e.cmds[i])
             c2 == IF x.ran THEN Append(c, commands[i]) ELSE c
         IN  IF ~x.result.success
             THEN [cmds |-> c2, result |-> x.result, failed |-> TRUE]
             ELSE CommandLoop(commands, e, i + 1, c2)

ChipsetHasCommands(chipset) == chipset # NoneV /\ chipset \in supported_chipsets

handle_meta_mode(device_info, e) ==
    LET current_state == _get_device_state(e.state)
        c1 == <<CmdGetState>>
    IN  IF current_state = "META"
        THEN DevRun([message |-> "Device already in Meta mode", status |-> "success"], c1)
        ELSE IF ~ChipsetHasCommands(device_info.chipset)
        THEN DevRun([message |-> "Unsupported chipset for Meta mode", status |-> "error"], c1)
        ELSE LET loop == CommandLoop(meta_commands(device_info.chipset), e, 1, c1)
             IN  IF loop.failed
                 THEN DevRun(loop.result, loop.cmds)
                 ELSE IF _get_device_state(e.state2) # "META"
                 THEN DevRun([message |-> "Failed to enter Meta mode", status |-> "error"],
                             Append(loop.cmds, CmdGetState))
                 ELSE DevRun([message |-> "Successfully entered Meta mode",
                              status |-> "success",
                              device_state |-> "meta"],
                             Append(loop.cmds, CmdGetState))

FrpMinBattery == 20

\* An FRP gate that checks the device state only.
_verify_frp_safety_state_only(device_info, e) ==
    [cmds |-> <<CmdGetState>>, value |-> (_get_device_state(e.state) = "FASTBOOT")]

\* An FRP gate that checks the battery level only.
_verify_frp_safety_battery_only(device_info, e) ==
    [cmds |-> <<CmdGetState, CmdBattery>>,
     value |-> ~(_get_battery_level(e.battery) < FrpMinBattery)]

\* value: the verdict; cmds: the reads made for it.
_verify_frp_safety(device_info, e) ==
    IF _get_device_state(e.state) # "FASTBOOT"
    THEN [cmds |-> <<CmdGetState>>, value |-> FALSE]
    ELSE LET battery_level == _get_battery_level(e.battery)
         IN  [cmds |-> <<CmdGetState, CmdBattery>>, value |-> ~(battery_level < FrpMinBattery)]

\* "empty" in result.get("stdout", "").lower()
_verify_frp_removal(outcome) ==
    LET x == _execute_command(CmdGetvarFrp, outcome)
    IN  [cmds |-> IF x.ran THEN <<CmdGetvarFrp>> ELSE << >>,
         value |-> ("stdout" \in DOMAIN x.result /\ x.result.stdout = "empty")]

handle_frp(device_info, e) ==
    LET safety == _verify_frp_safety(device_info, e)
    IN  IF ~safety.value
        THEN DevRun([message |-> "FRP operation safety check failed", status |-> "error"],
                    safety.cmds)
        ELSE IF ~ChipsetHasCommands(device_info.chipset)
        THEN DevRun([message |-> "Unsupported chipset for FRP removal", status |-> "error"],
                    safety.cmds)
        ELSE LET loop == CommandLoop(frp_commands(device_info.chipset), e, 1, safety.cmds)
             IN  IF loop.failed
                 THEN DevRun(loop.result, loop.cmds)
                 ELSE LET removal == _verify_frp_removal(e.getvar)
                      IN  IF ~removal.value
                          THEN DevRun([message |-> "FRP removal verification failed",
                                       status |-> "error"],
                                      loop.cmds \o removal.cmds)
                          ELSE DevRun([message |-> "FRP removed successfully",
                                       status |-> "success"],
                                      loop.cmds \o removal.cmds)

\* The longest command sequence of any chipset.
MaxCommands == Len(frp_commands("MT6853"))

\* Fates of a command sequence: command k meets kind (k = 0: none fails), the
\* commands after it would meet rest.
CmdOutcomes(k, kind, rest) ==
    [i \in 1..MaxCommands |-> IF i = k THEN kind ELSE IF i > k /\ k > 0 THEN rest ELSE "ok"]

CmdFates ==
    { CmdOutcomes(k, kind, rest) :
        k \in 0..MaxCommands, kind \in {"fail", "timeout", "fault", "no_tool"},
        rest \in {"ok", "fail"} }

\* The token a bridge would print for a device that is in META mode
\* (DeviceState.META.value); adb itself never prints it.
MetaToken == "meta"

\* The second state read is reached only when every command succeeded.
MetaEnvs ==
    { [cmds |-> f, state |-> s, state2 |-> "device"] :
        s \in {"device", "fastboot", MetaToken}, f \in CmdFates }
    \cup { [cmds |-> CmdOutcomes(0, "ok", "ok"), state |-> s, state2 |-> s2] :
        s \in {"device", "fastboot", MetaToken}, s2 \in {"device", "", MetaToken, Faulted} }

\* The re-query is reached only when every command succeeded.
FrpEnvs ==
    { [cmds |-> f, state |-> "fastboot", battery |-> [ok |-> TRUE, level |-> 20],
       getvar |-> "ok"] : f \in CmdFates }
    \cup { [cmds |-> CmdOutcomes(0, "ok", "ok"), state |-> "fastboot",
            battery |-> [ok |-> TRUE, level |-> 20], getvar |-> g] :
        g \in {"ok", "ok_empty", "fail", "fail_empty", "timeout", "no_tool"} }
    \cup { [cmds |-> CmdOutcomes(0, "ok", "ok"), state |-> s, battery |-> b,
            getvar |-> "ok_empty"] :
        s \in StateReads, b \in BatteryReads }

\* --------------------------------------------------------------- reports

NoReport == [status |-> "-", open |-> FALSE, operation_type |-> "-"]

start_operation_report(operation_type, device_info) ==
    [status |-> "in_progress", open |-> TRUE, operation_type |-> operation_type]

\* current: current_report afterwards; saved: the report as finalized (the
\* last one finalized stays when no report is active).
finalize_report(report, last, operation_result) ==
    IF ~report.open
    THEN [current |-> report, saved |-> last]
    ELSE [current |-> NoReport,
          saved |-> [report EXCEPT !.status =
                        IF "status" \in DOMAIN operation_result
                        THEN operation_result.status ELSE "unknown"]]

\* ---------------------------------------------------------- orchestrator

OperationTypes == {"meta_mode", "frp_remove", "backup", "restore", "flash"}

\* An error handler that lets the caller continue when recovery is possible.
handle_error_continue(message, r) ==
    LET recovery == _check_recovery_possible(r)
    IN  [cmds |-> recovery.cmds,
         result |-> [message |-> message, status |-> "error",
                     recovery_possible |-> recovery.value,
                     safe_to_continue |-> recovery.value]]

\* message: str(error).
handle_error(message, r) ==
    LET recovery == _check_recovery_possible(r)
    IN  [cmds |-> recovery.cmds,
         result |-> [message |-> message, status |-> "error",
                     recovery_possible |-> recovery.value, safe_to_continue |-> FALSE]]

\* A finished run of _execute_operation: raised = TRUE when the call raised
\* instead of returning.
ExecRun(raised, result, c, ev, rs, dir) ==
    [cmds |-> c, events |-> ev, results |-> rs, result |-> result, dir |-> dir,
     raised |-> raised]

\* A dispatch that answers success to any operation type.
_execute_operation_any(operation_type, device_info, he, dir, now) ==
    ExecRun(FALSE, [message |-> operation_type, status |-> "success"], << >>, << >>, << >>, dir)

\* operations[operation_type](device_info): every handler is called with the
\* one argument device_info; restore_backup(backup_path, device_info) needs
\* two, so that call raises TypeError before its body runs.
_execute_operation(operation_type, device_info, he, dir, now) ==
    CASE operation_type = "meta_mode" ->
            LET h == handle_meta_mode(device_info, he)
            IN  ExecRun(FALSE, h.result, h.cmds, <<"handle_meta_mode">>, << >>, dir)
      [] operation_type = "frp_remove" ->
            LET h == handle_frp(device_info, he)
            IN  ExecRun(FALSE, h.result, h.cmds, <<"handle_frp">>, << >>, dir)
      [] operation_type = "backup" ->
            LET h == create_backup(device_info, he, dir, now)
            IN  ExecRun(FALSE, h.result, h.cmds, <<"create_backup">> \o h.events,
                        h.results, h.dir)
      [] operation_type = "restore" ->
            ExecRun(TRUE, [message |-> "TypeError", status |-> "raised"], << >>,
                    <<"TypeError">>, << >>, dir)
      [] OTHER ->
            ExecRun(FALSE, [message |-> "Unsupported operation", status |-> "error"], << >>,
                    << >>, << >>, dir)

\* A finished run of start_operation.
OpRun(result, c, ev, st, rs, dir, report, last, stored) ==
    [cmds |-> c, events |-> ev, stages |-> st, results |-> rs, result |-> result,
     dir |-> dir, stored |-> stored, report |-> report, last |-> last]

\* Steps 2 to 5 of start_operation, once the gate has passed with
\* safety_check.  ve, he: what the bridge answers to the device
\* verification and to the handler; dir: the backup directory a backup made
\* now would use; report, last: the report manager's state.
AfterGate(operation_type, device_info, safety_check, ve, he, dir, now, report, last) ==
    LET device_check == verify_device(device_info, ve)
        c2 == safety_check.cmds \o device_check.cmds
        ev2 == <<"check_safety", "verify_device">>
    IN  IF ~device_check.result.verified
        THEN OpRun(device_check.result, c2, ev2, safety_check.stages,
                   << >>, dir, report, last, FALSE)
        ELSE LET opened == start_operation_report(operation_type, device_info)
                 x == _execute_operation(operation_type, device_info, he, dir, now)
                 ev3 == ev2 \o <<"start_operation_report", "execute_operation">> \o x.events
             IN  IF x.raised
                 THEN LET h == handle_error(x.result.message, he.recovery)
                      IN  OpRun(h.result, c2 \o h.cmds, Append(ev3, "handle_error"),
                                safety_check.stages, x.results, x.dir,
                                opened, last, TRUE)
                 ELSE LET f == finalize_report(opened, last, x.result)
                      IN  OpRun(x.result, c2 \o x.cmds, Append(ev3, "finalize_report"),
                                safety_check.stages, x.results, x.dir,
                                f.current, f.saved, TRUE)

\* start_operation without the return on an unsafe gate result.
start_operation_ungated(operation_type, device_info, ge, ve, he, dir, now, report, last) ==
    AfterGate(operation_type, device_info, check_safety(device_info, ge), ve, he, dir, now,
              report, last)

\* ge: what the bridge answers to the gate.
start_operation(operation_type, device_info, ge, ve, he, dir, now, report, last) ==
    LET safety_check == check_safety(device_info, ge)
    IN  IF ~safety_check.result.safe
        THEN OpRun(safety_check.result, safety_check.cmds, <<"check_safety">>,
                   safety_check.stages, << >>, dir, report, last, FALSE)
        ELSE AfterGate(operation_type, device_info, safety_check, ve, he, dir, now,
                       report, last)

\* ------------------------------------------------------------ environments

\* Gate answers used when the whole pipeline runs: each stage passes or
\* fails once, and one read raises.
PipelineGateEnvs ==
    { GateEnv(GoodBattery, GoodDevices, s, GoodLs, GoodDf) :
        s \in {"device", "fastboot", Faulted} }
    \cup { GateEnv([ok |-> TRUE, level |-> 19], GoodDevices, "device", GoodLs, GoodDf),
           GateEnv(GoodBattery, BadDevices, "device", GoodLs, GoodDf),
           GateEnv(GoodBattery, GoodDevices, "device", BadLs, GoodDf),
           GateEnv(GoodBattery, GoodDevices, "device", GoodLs, BadDf) }

PipelineVerifyEnvs ==
    { [devices |-> GoodDevices, adb_exists |-> TRUE],
      [devices |-> BadDevices, adb_exists |-> TRUE],
      [devices |-> TimedOut, adb_exists |-> FALSE] }

NoHandlerEnv == [recovery |-> NoRecovery]

PipelineMetaEnvs ==
    { [cmds |-> CmdOutcomes(k, kind, "ok"), state |-> "device", state2 |-> s2] :
        k \in 0..2, kind \in {"fail", "timeout"}, s2 \in {"device", ""} }

PipelineFrpEnvs ==
    { [cmds |-> CmdOutcomes(k, kind, "ok"), state |-> s, battery |-> b, getvar |-> g] :
        s \in {"device", "fastboot"}, b \in {[ok |-> TRUE, level |-> l] : l \in {19, 20}},
        k \in 0..3, kind \in {"fail", "timeout"}, g \in {"ok", "ok_empty"} }

PipelineBackupEnvs ==
    { [fault |-> "none", recovery |-> NoRecovery, parts |-> PartOutcomes(k, kind, "ok")] :
        k \in 0..NPartitions, kind \in {"dd_fail", "pull_fail"} }
    \cup { [fault |-> "manifest_dump", recovery |-> r, parts |-> PartOutcomes(0, "ok", "ok")] :
        r \in RecoveryReads }

HandlerEnvs(operation_type) ==
    CASE operation_type = "meta_mode" -> PipelineMetaEnvs
      [] operation_type = "frp_remove" -> PipelineFrpEnvs
      [] operation_type = "backup" -> PipelineBackupEnvs
      [] operation_type = "restore" -> {[recovery |-> r] : r \in RecoveryReads}
      [] OTHER -> {NoHandlerEnv}

\* ------------------------------------------------------------- the state

NoDevice == [present |-> FALSE]

NoCall == [op |-> "init"]

NoResult == [status |-> "init"]

\* After construction: nothing called yet, no backup on disk, no report
\* active, no device stored.
Init ==
    /\ call = NoCall
    /\ ret = NoResult
    /\ cmds = << >>
    /\ events = << >>
    /\ stages = << >>
    /\ results = << >>
    /\ fs = [d \in Dirs |-> NoDir]
    /\ clock = 1
    /\ current_report = NoReport
    /\ last_report = NoReport
    /\ current_device = NoDevice
    /\ ncalls = 0

\* The wall clock passes to the next second.
Tick ==
    /\ clock < MaxClock
    /\ clock' = clock + 1
    /\ UNCHANGED <<call, ret, cmds, events, stages, results, fs, current_report,
                   last_report, current_device, ncalls>>

\* Each action below is one call of a method: the run is computed from the
\* arguments and the bridge's answers, then the state takes its outcome.

\* ------------------------------------------------------------ safety gate

CheckSafety ==
    \E device_info \in DeviceInfos, e \in GateEnvs :
        \E run \in {check_safety(device_info, e)} :
            /\ call' = [device_info |-> device_info, bridge |-> e, op |-> "check_safety"]
            /\ ret' = run.result
            /\ cmds' = run.cmds
            /\ stages' = run.stages
            /\ events' = << >>
            /\ results' = << >>
            /\ UNCHANGED <<fs, clock, current_report, last_report, current_device, ncalls>>

\* Size strings given to _convert_to_mb: numbers with each unit letter in
\* both cases and with letters that are no unit, text that is no number,
\* a unit letter alone, and the empty string.
SizeInputs ==
    { SizeStr(TRUE, t, u) :
        t \in {0, 5, 15, 25, 8000, 10240, 15360, 25200, -5, -15, -10245},
        u \in {"G", "g", "M", "m", "K", "k", "T", "B", "5"} }
    \cup { SizeStr(FALSE, 0, u) : u \in {"s", "G", "M", "k", ""} }

ConvertToMb ==
    \E size_str \in SizeInputs :
        /\ call' = [size_str |-> size_str, op |-> "_convert_to_mb"]
        /\ ret' = [value |-> _convert_to_mb(size_str), status |-> "returned"]
        /\ cmds' = << >>
        /\ stages' = << >>
        /\ events' = << >>
        /\ results' = << >>
        /\ UNCHANGED <<fs, clock, current_report, last_report, current_device, ncalls>>

NextGate == CheckSafety \/ ConvertToMb

SpecGate == Init /\ [][NextGate]_vars

\* ----------------------------------------------------------------- backup

\* create_backup reads only the model of device_info.
BackupDeviceInfos == {d \in DeviceInfos : d.serial # NoneV /\ d.chipset # "MT6853"}

CreateBackup ==
    /\ ncalls < MaxCalls
    /\ \E device_info \in BackupDeviceInfos, e \in BackupEnvs :
        \E path \in {_get_backup_path(device_info, clock)} :
          \E run \in {create_backup(device_info, e, fs[path], clock)} :
            /\ call' = [device_info |-> device_info, path |-> path, op |-> "create_backup"]
            /\ ret' = run.result
            /\ cmds' = run.cmds
            /\ events' = run.events
            /\ results' = run.results
            /\ fs' = [fs EXCEPT ![path] = run.dir]
            /\ stages' = << >>
            /\ ncalls' = ncalls + 1
            /\ UNCHANGED <<clock, current_report, last_report, current_device>>

NextBackup == CreateBackup \/ Tick

SpecBackup == Init /\ [][NextBackup]_vars

\* ---------------------------------------------------------------- restore

\* Directories a restore may be pointed at: any mix of manifest,
\* verification file and partition images.
ManifestStates ==
    { NoManifest, Manifest("unreadable", << >>), Manifest("ok", critical_partitions),
      Manifest("ok", <<"nvram", "boot">>), Manifest("ok", <<"nvram", "recovery">>),
      Manifest("ok", << >>) }

VerificationStates ==
    { NoVerification, Verification(TRUE, TRUE, PartitionSet), Verification(TRUE, FALSE, {"nvram"}) }

ImageSets ==
    { {}, {"nvram"}, {"nvram", "boot"}, {"nvram", "recovery"}, PartitionSet,
      PartitionSet \ {"nvram"}, PartitionSet \ {"persist"}, PartitionSet \ {"system"} }

DirStates ==
    { [exists |-> TRUE, manifest |-> m, verification |-> v, imgs |-> i] :
        m \in ManifestStates, v \in VerificationStates, i \in ImageSets } \cup {NoDir}

RestorePath == <<"m1", 1>>

InitRestore ==
    /\ call = NoCall
    /\ ret = NoResult
    /\ cmds = << >>
    /\ events = << >>
    /\ stages = << >>
    /\ results = << >>
    /\ fs \in {[d \in Dirs |-> IF d = RestorePath THEN s ELSE NoDir] : s \in DirStates}
    /\ clock = 1
    /\ current_report = NoReport
    /\ last_report = NoReport
    /\ current_device = NoDevice
    /\ ncalls = 0

RestoreDeviceInfos == {d \in DeviceInfos : d.chipset = "MT6789"}

RestoreBackup ==
    \E device_info \in RestoreDeviceInfos, e \in RestoreEnvs :
        \E run \in {restore_backup(fs[RestorePath], device_info, e)} :
            /\ call' = [device_info |-> device_info, path |-> RestorePath,
                        op |-> "restore_backup"]
            /\ ret' = run.result
            /\ cmds' = run.cmds
            /\ events' = run.events
            /\ results' = run.results
            /\ stages' = << >>
            /\ UNCHANGED <<fs, clock, current_report, last_report, current_device, ncalls>>

VerifyBackupIntegrity ==
    /\ call' = [path |-> RestorePath, op |-> "_verify_backup_integrity"]
    /\ ret' = [value |-> _verify_backup_integrity(fs[RestorePath]), status |-> "returned"]
    /\ cmds' = << >>
    /\ events' = << >>
    /\ results' = << >>
    /\ stages' = << >>
    /\ UNCHANGED <<fs, clock, current_report, last_report, current_device, ncalls>>

NextRestore == RestoreBackup \/ VerifyBackupIntegrity

SpecRestore == InitRestore /\ [][NextRestore]_vars

\* --------------------------------------------------------- device manager

VerifyDevice ==
    \E device_info \in DeviceInfos, e \in VerifyEnvs :
        \E run \in {verify_device(device_info, e)} :
            /\ call' = [device_info |-> device_info, op |-> "verify_device"]
            /\ ret' = run.result
            /\ cmds' = run.cmds
            /\ current_device' = IF run.stored
                                 THEN [present |-> TRUE, info |-> device_info]
                                 ELSE current_device
            /\ events' = << >>
            /\ results' = << >>
            /\ stages' = << >>
            /\ UNCHANGED <<fs, clock, current_report, last_report, ncalls>>

HandleMetaMode ==
    \E device_info \in DeviceInfos, e \in MetaEnvs :
        \E run \in {handle_meta_mode(device_info, e)} :
            /\ call' = [device_info |-> device_info, state |-> e.state,
                        state2 |-> e.state2, op |-> "handle_meta_mode", fates |-> e.cmds]
            /\ ret' = run.result
            /\ cmds' = run.cmds
            /\ events' = << >>
            /\ results' = << >>
            /\ stages' = << >>
            /\ UNCHANGED <<fs, clock, current_report, last_report, current_device, ncalls>>

\* call.state, call.battery: what adb get-state and the battery read answer
\* inside _verify_frp_safety; call.fates: the fate of each command of the
\* sequence; call.getvar: the fate of the re-query.
HandleFrp ==
    \E device_info \in DeviceInfos, e \in FrpEnvs :
        \E run \in {handle_frp(device_info, e)} :
            /\ call' = [device_info |-> device_info, state |-> e.state,
                        battery |-> e.battery, getvar |-> e.getvar, op |-> "handle_frp",
                        fates |-> e.cmds]
            /\ ret' = run.result
            /\ cmds' = run.cmds
            /\ events' = << >>
            /\ results' = << >>
            /\ stages' = << >>
            /\ UNCHANGED <<fs, clock, current_report, last_report, current_device, ncalls>>

\* The commands the device manager passes to _execute_command.
ExecCommands ==
    UNION { Range(meta_commands(c)) \cup Range(frp_commands(c)) : c \in supported_chipsets }
    \cup {CmdGetvarFrp}

\* call.outcome: what the command meets.
ExecuteCommand ==
    \E cmd \in ExecCommands, outcome \in ExecOutcomes :
        \E run \in {_execute_command(cmd, outcome)} :
            /\ call' = [outcome |-> outcome, cmd |-> cmd, op |-> "_execute_command"]
            /\ ret' = run.result
            /\ cmds' = IF run.ran THEN <<cmd>> ELSE << >>
            /\ events' = << >>
            /\ results' = << >>
            /\ stages' = << >>
            /\ UNCHANGED <<fs, clock, current_report, last_report, current_device, ncalls>>

\* What adb get-state does when _get_device_state runs it: it raises, or it
\* exits with a code and prints a token.  _get_device_state reads the
\* token only.
GetStateReads ==
    { [fault |-> FALSE, rc |-> rc, state |-> t] :
        rc \in {0, 1}, t \in StateTokens \cup {MetaToken, "bootloader"} }
    \cup { [fault |-> TRUE, rc |-> 1, state |-> Faulted] }

GetDeviceState ==
    \E r \in GetStateReads :
        /\ call' = [bridge |-> r, op |-> "_get_device_state"]
        /\ ret' = [value |-> _get_device_state(r.state), status |-> "returned"]
        /\ cmds' = <<CmdGetState>>
        /\ events' = << >>
        /\ results' = << >>
        /\ stages' = << >>
        /\ UNCHANGED <<fs, clock, current_report, last_report, current_device, ncalls>>

NextDevice ==
    VerifyDevice \/ HandleMetaMode \/ HandleFrp \/ ExecuteCommand \/ GetDeviceState

SpecDevice == Init /\ [][NextDevice]_vars

\* ----------------------------------------------------------- orchestrator

NoVerifyEnv == [devices |-> TimedOut, adb_exists |-> FALSE]

\* The state token the handler's first adb get-state reads (NoneV for a
\* handler that reads none, or that is not reached).
HandlerState(he) == IF "state" \in DOMAIN he THEN he.state ELSE NoneV

\* What the bridge would answer to _check_recovery_possible.
HandlerRecovery(he) == IF "recovery" \in DOMAIN he THEN he.recovery ELSE NoRecovery

\* The bridge is asked for the device verification only once the gate has
\* passed, and for the handler only once the device is verified.
\* call.bridge: the gate's answers; call.handler: the answers the handler
\* gets (and the recovery probe of the error handlers).
StartOperation ==
    /\ ncalls < MaxOperations
    /\ \E operation_type \in OperationTypes, device_info \in DeviceInfos,
          ge \in PipelineGateEnvs :
        \E ve \in (IF check_safety(device_info, ge).result.safe
                   THEN PipelineVerifyEnvs ELSE {NoVerifyEnv}) :
          \E he \in (IF /\ check_safety(device_info, ge).result.safe
                        /\ verify_device(device_info, ve).result.verified
                     THEN HandlerEnvs(operation_type) ELSE {NoHandlerEnv}) :
            \E path \in {_get_backup_path(device_info, clock)} :
              \E run \in {start_operation(operation_type, device_info, ge, ve, he,
                                          fs[path], clock, current_report, last_report)} :
                /\ call' = [device_info |-> device_info, path |-> path,
                            operation_type |-> operation_type, bridge |-> ge,
                            op |-> "start_operation",
                            handler |-> he]
                /\ ret' = run.result
                /\ cmds' = run.cmds
                /\ events' = run.events
                /\ stages' = run.stages
                /\ results' = run.results
                /\ fs' = [fs EXCEPT ![path] = run.dir]
                /\ current_report' = run.report
                /\ last_report' = run.last
                /\ current_device' = IF run.stored
                                     THEN [present |-> TRUE, info |-> device_info]
                                     ELSE current_device
                /\ ncalls' = ncalls + 1
                /\ UNCHANGED clock

Next == StartOperation \/ Tick

Spec == Init /\ [][Next]_vars

\* ------------------------------------------------------------- properties

\* The gate's stages in the order the contract gives them.
GateOrder == <<"check_battery", "check_connection", "verify_device_state",
               "check_critical_partitions", "check_backup_availability">>

LastStage == stages[Len(stages)]

\* C1: check_safety runs battery, connection, device-state,
\* critical-partitions, storage in that order and stops at the first stage
\* that is not safe, returning that stage's result unchanged: every stage
\* before the last evaluated one was safe, one query is issued per evaluated
\* stage and none after a failure (a low battery is followed by no query at
\* all), and the gate answers safe only after five safe stages.
C1_StagesInOrderStopAtFirstFailure ==
    call.op = "check_safety" =>
        /\ Len(stages) \in 1..Len(GateOrder)
        /\ \A i \in 1..Len(stages) : stages[i].check = GateOrder[i]
        /\ cmds = [i \in 1..Len(stages) |-> StageCmd(GateOrder[i])]
        /\ \A i \in 1..(Len(stages) - 1) : stages[i].result.safe
        /\ ~LastStage.result.safe => ret = LastStage.result
        /\ LastStage.result.safe => Len(stages) = Len(GateOrder)
        /\ ret.safe => /\ Len(stages) = Len(GateOrder)
                       /\ \A i \in 1..Len(stages) : stages[i].result.safe
        /\ (call.bridge.battery.ok /\ call.bridge.battery.level < 20)
              => (cmds = <<CmdBattery>> /\ ~ret.safe)

\* The device-state stage fails after two safe stages, with later stages
\* that would have failed as well.
C1_Witness ==
    /\ call.op = "check_safety"
    /\ Len(stages) = 3
    /\ ret.message = "Device in wrong state"
    /\ call.bridge.ls = BadLs
    /\ call.bridge.df = BadDf

\* C2: when the gate answers unsafe, start_operation returns that answer
\* verbatim and nothing else happens: the only step taken is the gate, the
\* only queries issued are the gate's, no device is stored, no report is
\* opened or finalized, and no backup directory is touched.
C2_UnsafeGateStopsOperation ==
    [][ (ncalls' # ncalls /\ call'.op = "start_operation"
         /\ ~stages'[Len(stages')].result.safe)
        => /\ ret' = stages'[Len(stages')].result
           /\ events' = <<"check_safety">>
           /\ cmds' = [i \in 1..Len(stages') |-> StageCmd(stages'[i].check)]
           /\ results' = << >>
           /\ current_report' = current_report
           /\ last_report' = last_report
           /\ current_device' = current_device
           /\ fs' = fs ]_vars

\* A backup is asked for on a low battery.
C2_Witness ==
    /\ call.op = "start_operation"
    /\ call.operation_type = "backup"
    /\ ret = [safe |-> FALSE, message |-> "Battery level too low",
              required |-> Percent(20), current |-> Percent(19)]

SupportedOperations == {"meta_mode", "frp_remove", "backup", "restore"}

UnsupportedOperation == [message |-> "Unsupported operation", status |-> "error"]

\* C3 as stated: an operation type outside the dispatch table is answered
\* with the "Unsupported operation" error without the gate having been
\* engaged: no gate stage evaluated, no query issued, no step taken.
C3_AsStated ==
    (call.op = "start_operation" /\ call.operation_type \notin SupportedOperations)
        => /\ ret = UnsupportedOperation
           /\ stages = << >>
           /\ cmds = << >>

\* C3: for an operation type outside the dispatch table the gate is engaged
\* first, as for any operation.  If the gate or the device verification
\* fails, that failure is what is returned.  Otherwise the answer is the
\* "Unsupported operation" error, no handler has run (the only queries are
\* the gate's five and the verification's one), and the report opened for
\* the operation has been finalized with status error.
C3_UnsupportedAfterGate ==
    (call.op = "start_operation" /\ call.operation_type \notin SupportedOperations)
        => /\ stages # << >>
           /\ events[1] = "check_safety"
           /\ IF "safe" \in DOMAIN ret THEN ~ret.safe /\ ~LastStage.result.safe
              ELSE IF "verified" \in DOMAIN ret THEN ~ret.verified
              ELSE /\ ret = UnsupportedOperation
                   /\ \A i \in 1..Len(stages) : stages[i].result.safe
                   /\ events = <<"check_safety", "verify_device", "start_operation_report",
                                 "execute_operation", "finalize_report">>
                   /\ cmds = [i \in 1..Len(GateOrder) |-> StageCmd(GateOrder[i])]
                             \o <<CmdDevices>>
                   /\ current_report = NoReport
                   /\ last_report = [status |-> "error", open |-> TRUE,
                                     operation_type |-> call.operation_type]

\* An unsupported operation type got past the gate and the verification.
C3_Witness ==
    /\ call.op = "start_operation"
    /\ call.operation_type = "flash"
    /\ ret = UnsupportedOperation
    /\ Len(stages) = 5

\* What the contract calls a backup that is not restorable.
ManifestListed(dir) == Range(dir.manifest.partitions)

IntegrityFails(dir) ==
    \/ dir.manifest.state # "ok"
    \/ ~dir.verification.present
    \/ \E p \in ManifestListed(dir) : p \notin dir.imgs

IntegrityCheckFailed == [message |-> "Backup integrity check failed", status |-> "error"]

\* C4: restore_backup on a directory whose manifest is missing, whose
\* verification.json is missing or one of whose manifest-listed images is
\* missing returns "Backup integrity check failed" and issues no command.
C4_NoCommandOnFailedIntegrity ==
    (call.op = "restore_backup" /\ IntegrityFails(fs[call.path]))
        => /\ ret = IntegrityCheckFailed
           /\ cmds = << >>
           /\ results = << >>

\* Every image is there and the manifest is good, only verification.json is
\* missing.
C4_Witness ==
    /\ call.op = "restore_backup"
    /\ fs[call.path].imgs = PartitionSet
    /\ fs[call.path].manifest = Manifest("ok", critical_partitions)
    /\ ~fs[call.path].verification.present
    /\ ret = IntegrityCheckFailed

PartitionIndex(p) == CHOOSE i \in 1..NPartitions : critical_partitions[i] = p

\* C5 as stated: when create_backup fails at partition k, the result has
\* status error and its details carry the partial results: an entry for each
\* of the partitions 1..k and for no other, successful for 1..k-1 and failed
\* for k.
C5_DetailsCarryPartialResults ==
    (call.op = "create_backup" /\ "partition" \in DOMAIN ret)
        => LET k == PartitionIndex(ret.partition)
           IN  /\ ret.status = "error"
               /\ DOMAIN ret.details = {critical_partitions[i] : i \in 1..k}
               /\ \A i \in 1..(k - 1) : ret.details[critical_partitions[i]].success
               /\ ~ret.details[critical_partitions[k]].success

AllSixSucceeded(rs) ==
    /\ Len(rs) = NPartitions
    /\ \A i \in 1..NPartitions : rs[i].partition = critical_partitions[i] /\ rs[i].result.success

\* C6: a run of create_backup writes verification.json only when all six
\* partition dumps succeeded, never when one failed, and what it writes has
\* an entry for every critical partition and verified = true.
C6_VerificationOnlyOnFullSuccess ==
    [][ (ncalls' # ncalls /\ call'.op = "create_backup")
        => /\ \A d \in Dirs \ {call'.path} : fs'[d] = fs[d]
           /\ ("write verification.json" \in Range(events')
               \/ fs'[call'.path].verification # fs[call'.path].verification)
              => /\ AllSixSucceeded(results')
                 /\ ret'.status = "success"
                 /\ fs'[call'.path].verification = Verification(TRUE, TRUE, PartitionSet)
           /\ (\E i \in 1..Len(results') : ~results'[i].result.success)
              => /\ fs'[call'.path].verification = fs[call'.path].verification
                 /\ "write verification.json" \notin Range(events') ]_vars

\* A run of six successful dumps has written the record.
C6_Witness ==
    /\ call.op = "create_backup"
    /\ AllSixSucceeded(results)
    /\ "write verification.json" \in Range(events)
    /\ fs[call.path].verification.verified

\* C7: the integrity check answers true exactly when backup_info.json
\* exists and is readable, verification.json exists and every partition the
\* manifest names has its image; in every other case it answers false, and
\* it always returns.
C7_IntegrityExactly ==
    call.op = "_verify_backup_integrity"
        => /\ ret.status = "returned"
           /\ ret.value = ~IntegrityFails(fs[call.path])

\* A manifest naming two partitions, both imaged, passes.
C7_Witness ==
    /\ call.op = "_verify_backup_integrity"
    /\ fs[call.path].manifest = Manifest("ok", <<"nvram", "boot">>)
    /\ fs[call.path].imgs = {"nvram", "boot"}
    /\ ret.value

\* C8: when create_backup returns success with backup_path P, the integrity
\* check on P answers true: manifest, verification file and the six images
\* are there.
C8_BackupThenIntegrity ==
    (call.op = "create_backup" /\ ret.status = "success")
        => /\ ret.backup_path = call.path
           /\ _verify_backup_integrity(fs[ret.backup_path])
           /\ PartitionSet \subseteq fs[ret.backup_path].imgs
           /\ fs[ret.backup_path].manifest.state = "ok"
           /\ fs[ret.backup_path].verification.present

\* A successful backup of a device that reports no model.
C8_Witness ==
    /\ call.op = "create_backup"
    /\ ret.status = "success"
    /\ call.path[1] = "unknown"
    /\ Len(cmds) = 3 * NPartitions

\* C9 as stated: the directory left by a create_backup that failed at one
\* of its partitions is not accepted by the integrity check, whatever calls
\* came before, two calls that resolve to the same directory included.
C9_FailedBackupNeverAccepted ==
    (call.op = "create_backup" /\ ret.status = "error" /\ "partition" \in DOMAIN ret)
        => ~_verify_backup_integrity(fs[call.path])

\* C10: handle_frp issues a fastboot erase only if the state read just
\* before is fastboot and the battery level read just before is at least 20,
\* both reads preceding every erase; otherwise (wrong state, low level,
\* unreadable level) it returns the safety error and issues no erase.
FrpErases == {i \in 1..Len(cmds) : cmds[i].tool = "fastboot" /\ cmds[i].verb = "erase"}

FrpGateHolds ==
    /\ call.state = "fastboot"
    /\ call.battery.ok
    /\ call.battery.level >= 20

C10_EraseOnlyBehindFrpGate ==
    call.op = "handle_frp"
        => /\ FrpErases # {} => /\ FrpGateHolds
                                /\ cmds[1] = CmdGetState
                                /\ cmds[2] = CmdBattery
                                /\ \A i \in FrpErases : i > 2
           /\ ~FrpGateHolds
                => /\ ret = [message |-> "FRP operation safety check failed",
                             status |-> "error"]
                   /\ FrpErases = {}

\* The erase sequence runs at exactly the threshold.
C10_Witness ==
    /\ call.op = "handle_frp"
    /\ call.battery = [ok |-> TRUE, level |-> 20]
    /\ FrpErases # {}
    /\ ret.status = "success"

\* The chipset's FRP commands, all of them met with exit code 0.
FrpCommandsSucceeded ==
    LET commands == frp_commands(call.device_info.chipset)
    IN  /\ FrpGateHolds
        /\ ChipsetHasCommands(call.device_info.chipset)
        /\ \A i \in 1..Len(commands) : call.fates[i] = "ok"

FrpVerificationFailed == [message |-> "FRP removal verification failed", status |-> "error"]

\* C11 as stated: handle_frp returns status success only if every FRP
\* command of the chipset succeeded and the re-query of the FRP variable
\* then reported empty; when the commands all succeeded and the re-query
\* failed or did not report empty, it returns the FRP-verification-failed
\* error, the erase commands having all been issued.
C11_SuccessOnlyAfterEmptyRequery ==
    call.op = "handle_frp"
        => /\ ("status" \in DOMAIN ret /\ ret.status = "success")
                => /\ FrpCommandsSucceeded
                   /\ call.getvar = "ok_empty"
           /\ (FrpCommandsSucceeded /\ call.getvar # "ok_empty")
                => /\ ret = FrpVerificationFailed
                   /\ SubSeq(cmds, 3, Len(cmds)) \in
                        { frp_commands(call.device_info.chipset) \o t :
                            t \in {<< >>, <<CmdGetvarFrp>>} }

MetaCommandsIssued ==
    {i \in 1..Len(cmds) : cmds[i] \in Range(meta_commands(call.device_info.chipset))}

\* C12 as stated: when the device is already in Meta state, handle_meta_mode
\* returns success and re-issues none of the chipset's META commands; the
\* only query it may make is the one that reads the state.  (Stated for
\* the chipsets that have a META command sequence.)
C12_MetaEntryIdempotent ==
    (/\ call.op = "handle_meta_mode"
     /\ call.state = MetaToken
     /\ ChipsetHasCommands(call.device_info.chipset))
        => /\ "status" \in DOMAIN ret
           /\ ret.status = "success"
           /\ MetaCommandsIssued = {}

\* The gate and the device verification of the last start_operation passed.
GateAndVerificationPassed ==
    /\ Len(stages) = Len(GateOrder)
    /\ \A i \in 1..Len(stages) : stages[i].result.safe
    /\ "start_operation_report" \in Range(events)

\* What restore_backup can return.
RestoreResultMessages ==
    {"Backup integrity check failed", "Restore failed for", "Backup restored successfully"}

\* C13 as stated: start_operation with operation type restore, once the gate
\* and the device verification have passed, runs restore_backup (integrity
\* verification first) and returns what restore_backup returned.
C13_RestoreDispatched ==
    (/\ call.op = "start_operation"
     /\ call.operation_type = "restore"
     /\ GateAndVerificationPassed)
        => /\ "verify_backup_integrity" \in Range(events)
           /\ ret.message \in RestoreResultMessages
           /\ "safe_to_continue" \notin DOMAIN ret

\* A fault escaped to start_operation's own except clause.
FaultEscaped == "TypeError" \in Range(events)

\* A fault was raised somewhere on the path of the last start_operation:
\* inside a gate stage (the state read raised) or in the dispatch.
GateStageFaulted == Len(stages) >= 3 /\ call.bridge.state = Faulted

FaultRaised == GateStageFaulted \/ FaultEscaped

HandledErrorFields == {"status", "message", "recovery_possible", "safe_to_continue"}

\* C14 as stated: whenever a fault is raised anywhere on the gate /
\* verification / report / handler path, start_operation returns a result
\* with status error, a message, a boolean recovery_possible and
\* safe_to_continue = false.
C14_AsStated ==
    (call.op = "start_operation" /\ FaultRaised)
        => /\ HandledErrorFields \subseteq DOMAIN ret
           /\ ret.status = "error"
           /\ ret.recovery_possible \in BOOLEAN
           /\ ~ret.safe_to_continue

\* C14: start_operation always returns.  A fault that reaches its own except
\* clause (one the gate, the verification, the report manager and the handler
\* did not catch themselves) is converted by handle_error into exactly
\* {status error, message = the fault's text, recovery_possible boolean,
\* safe_to_continue false}, after the recovery probe's queries.  A fault
\* caught inside a gate stage is returned in the gate's own form
\* {safe false, message}, with no status field.
C14_UncaughtFaultConverted ==
    call.op = "start_operation"
        => /\ "status" \in DOMAIN ret => ret.status \in {"success", "error"}
           /\ FaultEscaped
                => /\ DOMAIN ret = HandledErrorFields
                   /\ ret.status = "error"
                   /\ ret.message = "TypeError"
                   /\ ret.recovery_possible \in BOOLEAN
                   /\ ~ret.safe_to_continue
                   /\ events[Len(events)] = "handle_error"
                   /\ ret.recovery_possible => cmds[Len(cmds)] = CmdRebootRecovery
           /\ GateStageFaulted
                => ret = [safe |-> FALSE, message |-> "Could not verify device state"]

\* The dispatch of restore raised and the device can still reach recovery.
C14_Witness ==
    /\ call.op = "start_operation"
    /\ FaultEscaped
    /\ ret.recovery_possible
    /\ ~ret.safe_to_continue

ReportOpened == "start_operation_report" \in Range(events)

Finalizations == {i \in 1..Len(events) : events[i] = "finalize_report"}

\* C15 as stated: every start_operation run that opens a report finalizes it
\* exactly once, as its last step after the handler has returned, with the
\* result it then returns; when the run returns no report is open.
C15_ReportFinalizedOnce ==
    (call.op = "start_operation" /\ ReportOpened)
        => /\ Cardinality(Finalizations) = 1
           /\ events[Len(events)] = "finalize_report"
           /\ current_report = NoReport
           /\ last_report.operation_type = call.operation_type
           /\ last_report.status = IF "status" \in DOMAIN ret THEN ret.status ELSE "unknown"

ToolMissing == call.outcome = "no_tool" /\ call.cmd.tool \in {"adb", "fastboot"}

ToolNotFound == [tool |-> call.cmd.tool, message |-> "not found", success |-> FALSE]

\* The four outcomes the contract names, by what the command met.
NamedOutcome ==
    IF ToolMissing THEN ret = ToolNotFound /\ cmds = << >>
    ELSE /\ cmds = <<call.cmd>>
         /\ CASE call.outcome = "timeout" ->
                    ret = [message |-> "Command timed out", success |-> FALSE,
                           cmd |-> call.cmd]
              [] call.outcome \in {"fail", "fail_empty"} ->
                    /\ ret.message = "Command failed"
                    /\ ~ret.success
                    /\ {"stdout", "stderr"} \subseteq DOMAIN ret
              [] OTHER ->
                    /\ ret.success
                    /\ DOMAIN ret = {"success", "stdout"}

\* subprocess.run raised something other than TimeoutExpired: the tool is on
\* the PATH but cannot be launched, or the command names a program that is
\* neither adb nor fastboot and is not installed.
LaunchFault == ~ToolMissing /\ call.outcome \in {"fault", "no_tool"}

\* C16 as stated: _execute_command runs the command at most once and
\* returns one of four outcomes: tool-not-found (no execution) for an adb or
\* fastboot command whose tool is missing, timed-out with the command on a
\* timeout, command-failed with stdout and stderr on a non-zero exit, and
\* success with stdout in every other case.
C16_AsStated ==
    call.op = "_execute_command" => NamedOutcome

\* C16: _execute_command runs the command at most once, never raises, and
\* returns one of five outcomes: the four named ones and, when launching
\* the command raises any other fault, a command-error failure (success
\* false, no stdout), the launch having been attempted once.
C16_OneOfFiveOutcomes ==
    call.op = "_execute_command"
        => /\ Len(cmds) <= 1
           /\ "success" \in DOMAIN ret
           /\ IF LaunchFault
              THEN /\ ret = [message |-> "Command error", success |-> FALSE]
                   /\ cmds = <<call.cmd>>
              ELSE NamedOutcome

\* fastboot is not on the PATH when an erase is asked for.
C16_Witness ==
    /\ call.op = "_execute_command"
    /\ call.cmd = Cmd("fastboot", "erase", "frp")
    /\ call.outcome = "no_tool"
    /\ ret = [tool |-> "fastboot", message |-> "not found", success |-> FALSE]
    /\ cmds = << >>

\* The read of a gate stage raised (or, for the battery, gave no integer;
\* for the connection, the serial to look for is None).
ReadRaised(check) ==
    CASE check = "check_battery" -> ~call.bridge.battery.ok
      [] check = "check_connection" ->
            call.bridge.devices.fault \/ call.device_info.serial = NoneV
      [] check = "verify_device_state" -> call.bridge.state = Faulted
      [] check = "check_critical_partitions" -> call.bridge.ls.fault
      [] check = "check_backup_availability" -> call.bridge.df.fault

\* The message of each stage's own except clause.
StageFaultMessage(check) ==
    CASE check = "check_battery" -> "Could not check battery"
      [] check = "check_connection" -> "Connection check failed"
      [] check = "verify_device_state" -> "Could not verify device state"
      [] check = "check_critical_partitions" -> "Critical partition check failed"
      [] check = "check_backup_availability" -> "Backup availability check failed"

\* A stage was reached and its read raised.
StageRaised == call.op = "check_safety" /\ ReadRaised(LastStage.check)

\* C17 as stated: check_safety always returns a result with a boolean safe
\* field, and when a stage raised the result is {safe false, message
\* "Safety check failed", error <cause>}.
C17_AsStated ==
    call.op = "check_safety"
        => /\ ret.safe \in BOOLEAN
           /\ StageRaised
                => /\ ~ret.safe
                   /\ ret.message = "Safety check failed"
                   /\ "error" \in DOMAIN ret

\* C17: check_safety always returns a result with a boolean safe field,
\* whatever the device_info and the bridge do.  A failure raised during a
\* stage is caught by that stage and yields {safe false, message <that
\* stage's own message>} with no error field; later stages do not run.
C17_StageFaultsCaughtByStage ==
    call.op = "check_safety"
        => /\ ret.safe \in BOOLEAN
           /\ StageRaised
                => /\ ret = [safe |-> FALSE, message |-> StageFaultMessage(LastStage.check)]
                   /\ Len(cmds) = Len(stages)

\* adb get-state raises after two safe stages.
C17_Witness ==
    /\ call.op = "check_safety"
    /\ Len(stages) = 3
    /\ call.bridge.state = Faulted
    /\ ret = [safe |-> FALSE, message |-> "Could not verify device state"]

BatteryStage == stages[1].result

\* C18: when the battery read gives a level, the battery stage fails exactly
\* when the level is below 20 (20 itself passes), and its failure result is
\* {safe false, "Battery level too low", required "20%", current "<level>%"}
\* with the level just read.
C18_BatteryThreshold ==
    (call.op = "check_safety" /\ call.bridge.battery.ok)
        => LET level == call.bridge.battery.level
           IN  /\ stages[1].check = "check_battery"
               /\ BatteryStage.safe <=> level >= 20
               /\ level = 20 => BatteryStage = [safe |-> TRUE]
               /\ level < 20
                    => /\ BatteryStage = [safe |-> FALSE, message |-> "Battery level too low",
                                          required |-> <<20, "%">>,
                                          current |-> <<level, "%">>]
                       /\ ret = BatteryStage

\* A level of 19 is turned away and reported as "19%".
C18_Witness ==
    /\ call.op = "check_safety"
    /\ call.bridge.battery = [ok |-> TRUE, level |-> 19]
    /\ ret.current = <<19, "%">>
    /\ ret.required = <<20, "%">>

\* The df answer could be parsed: exit code 0, a second line, a fourth column.
DfParsed ==
    /\ ~call.bridge.df.fault
    /\ call.bridge.df.rc = 0
    /\ call.bridge.df.lines >= 2
    /\ call.bridge.df.cols >= 4

RequiredSpaceMB == ((500 + 100 * 6 + 1000) * 12) \div 10

\* The available space of the df answers whose unit is M, in MB.
AvailableMB == call.bridge.df.avail.tenths \div 10

\* C19: for the six critical partitions, userdata among them, the required
\* space is 2520 MB, and the storage stage fails exactly when the available
\* space in MB is below 2520 (2520 itself passes), its message giving both
\* numbers.
C19_StorageThreshold ==
    (call.op = "check_safety" /\ Len(stages) = Len(GateOrder) /\ DfParsed)
        => LET stage == stages[Len(GateOrder)].result
               have == _convert_to_mb(call.bridge.df.avail)
           IN  /\ RequiredSpaceMB = 2520
               /\ _calculate_required_space(call.device_info) = 2520
               /\ stage.safe <=> have >= 2520
               /\ ~stage.safe
                    => /\ stage = [safe |-> FALSE, message |-> "Insufficient storage space",
                                   need |-> 2520, have |-> have]
                       /\ ret = stage
               /\ (call.bridge.df.avail.numeric /\ call.bridge.df.avail.unit = "M")
                    => /\ have = AvailableMB
                       /\ stage.safe <=> AvailableMB >= 2520

\* df reports exactly 2520M and the gate passes.
C19_Witness ==
    /\ call.op = "check_safety"
    /\ call.bridge.df.avail = SizeStr(TRUE, 25200, "M")
    /\ Len(stages) = Len(GateOrder)
    /\ ret.safe

\* The number of MB a unit letter stands for, as a fraction of 10 tenths:
\* a size of t tenths with this unit is t * num / den MB.
UnitFactor(unit) ==
    CASE unit \in {"G", "g"} -> [num |-> 1024, den |-> 10]
      [] unit \in {"M", "m"} -> [num |-> 1, den |-> 10]
      [] unit \in {"K", "k"} -> [num |-> 1, den |-> 10240]
      [] OTHER -> [num |-> 0, den |-> 10]

Recognized(size_str) == size_str.numeric /\ size_str.unit \in {"G", "g", "M", "m", "K", "k"}

RECURSIVE BackupSequence(_)
BackupSequence(i) ==
    IF i > NPartitions THEN << >>
    ELSE <<CmdDump(critical_partitions[i]), CmdPull(critical_partitions[i]), CmdRmTemp>>
         \o BackupSequence(i + 1)

IsPrefix(s, t) == Len(s) <= Len(t) /\ s = SubSeq(t, 1, Len(s))

IsBackupCmd(c) == c.verb \in {"shell dd dump", "pull", "shell rm temp.img"}

\* The commands of the partition loop; the recovery probe of a failed
\* verification write may follow them.
BackupCmds == SelectSeq(cmds, IsBackupCmd)

Dumps == {i \in 1..Len(cmds) : cmds[i].verb = "shell dd dump"}

\* C21: a run of create_backup that reaches the partitions makes the backup
\* directory, writes the manifest, then issues dump, pull, delete-temp for
\* each critical partition in the canonical order, and writes the
\* verification record last.  Every dump comes after the manifest write; a
\* partition's dump comes only after the previous partition's pull succeeded
\* (and its temporary file was deleted).
C21_BackupWriteOrder ==
    (call.op = "create_backup" /\ Dumps # {})
        => /\ IsPrefix(BackupCmds, cmds)
           /\ IsPrefix(BackupCmds, BackupSequence(1))
           /\ IsPrefix(<<"makedirs", "write backup_info.json">> \o Steps(BackupCmds), events)
           /\ Len(events) <= Len(BackupCmds) + 3
           /\ \A i \in 1..Len(events) :
                events[i] = "write verification.json"
                    => i = Len(events) /\ cmds = BackupSequence(1)
           /\ \A i \in Dumps :
                /\ cmds[i] = CmdDump(critical_partitions[(i + 2) \div 3])
                /\ i > 1 => /\ cmds[i - 2] = CmdPull(critical_partitions[(i - 1) \div 3])
                            /\ cmds[i - 1] = CmdRmTemp
                            /\ results[(i - 1) \div 3].result.success
                            /\ critical_partitions[(i - 1) \div 3] \in fs[call.path].imgs

\* A run that dumped and pulled the first three partitions and failed at the
\* pull of the fourth.
C21_Witness ==
    /\ call.op = "create_backup"
    /\ Len(cmds) = 11
    /\ cmds[10] = CmdDump("security")
    /\ cmds[11] = CmdPull("security")
    /\ ret.status = "error"

\* The commands of the restore of partitions i..n, all successful.
RECURSIVE RestoreSequence(_, _)
RestoreSequence(i, n) ==
    IF i > n THEN << >>
    ELSE <<CmdPush(critical_partitions[i]), CmdWrite(critical_partitions[i]), CmdRmTemp>>
         \o RestoreSequence(i + 1, n)

\* What the restore of partition p leaves in cmds when it fails with error.
FailedRestoreCmds(p, error) ==
    CASE error = "Backup file not found" -> << >>
      [] error \in {"push_fail", "fault"} -> <<CmdPush(p)>>
      [] error = "dd_fail" -> <<CmdPush(p), CmdWrite(p), CmdRmTemp>>

\* C22: once the integrity check passed, restore_backup restores the
\* partitions in the canonical order, each as push, dd, delete-temp.  When
\* the push or the dd of partition k fails the run stops there: the commands
\* issued are exactly those of partitions 1..k-1 and the failed attempt at k
\* (nothing for a later partition, nothing twice, nothing undoing a written
\* partition), and the result is an error naming partition k.
C22_RestoreFailFast ==
    (call.op = "restore_backup" /\ results # << >>)
        => LET k == Len(results)
               last == results[k]
           IN  /\ \A i \in 1..k : results[i].partition = critical_partitions[i]
               /\ \A i \in 1..(k - 1) : results[i].result.success
               /\ last.result.success
                    => /\ k = NPartitions
                       /\ cmds = RestoreSequence(1, NPartitions)
                       /\ ret.status = "success"
               /\ ~last.result.success
                    => /\ cmds = RestoreSequence(1, k - 1)
                                 \o FailedRestoreCmds(last.partition, last.result.error)
                       /\ ret = [message |-> "Restore failed for", partition |-> last.partition,
                                 status |-> "error", details |-> last.result]

\* The dd of the third partition fails after two partitions were written.
C22_Witness ==
    /\ call.op = "restore_backup"
    /\ Len(results) = 3
    /\ results[3].result = [error |-> "dd_fail", success |-> FALSE]
    /\ ret.partition = "persist"
    /\ Len(cmds) = 9

\* The fixed table of the contract.
StateTable(token) ==
    CASE token = "device" -> "NORMAL"
      [] token = "recovery" -> "RECOVERY"
      [] token = "fastboot" -> "FASTBOOT"
      [] token = "sideload" -> "UNKNOWN"
      [] OTHER -> "UNKNOWN"

\* The state query failed: it could not be run, or it exited non-zero.
StateQueryFailed == call.bridge.fault \/ call.bridge.rc # 0

\* C23 as stated: _get_device_state always returns a DeviceState: the
\* table's entry for the token printed, and UNKNOWN for every other token
\* and whenever the state query failed.
C23_GetStateTotal ==
    call.op = "_get_device_state"
        => /\ ret.status = "returned"
           /\ ret.value \in DeviceStates
           /\ ret.value = IF StateQueryFailed THEN "UNKNOWN"
                          ELSE StateTable(call.bridge.state)

\* ---------------------------------------------------------------------------
\* Waiting on the bridge.  start_operation is synchronous: each
\* subprocess.run blocks the caller until the process exits or, where a
\* timeout argument is given, until the timeout elapses.  The pipeline is
\* followed here one invocation at a time.
\* ---------------------------------------------------------------------------

ConnectionTimeout == 10
CommandTimeout == 20

\* One subprocess.run of the call chain: the command, the timeout argument
\* ({} when the call passes none, else {seconds}), and whether the caller
\* can return on the strength of the answer.
Invocation(cmd, timeout, may_stop) ==
    [cmd |-> cmd, timeout |-> timeout, may_stop |-> may_stop]

RECURSIVE Executed(_)
Executed(commands) ==
    IF commands = << >> THEN << >>
    ELSE <<Invocation(Head(commands), {CommandTimeout}, TRUE)>> \o Executed(Tail(commands))

GateInvocations ==
    <<Invocation(CmdBattery, {}, TRUE), Invocation(CmdDevices, {}, TRUE),
      Invocation(CmdGetState, {}, TRUE), Invocation(CmdLsParts, {}, TRUE),
      Invocation(CmdDf, {}, TRUE)>>

VerifyInvocations == <<Invocation(CmdDevices, {ConnectionTimeout}, TRUE)>>

HandlerInvocations(operation_type, chipset) ==
    IF operation_type = "meta_mode"
    THEN <<Invocation(CmdGetState, {}, FALSE)>>
         \o Executed(meta_commands(chipset))
         \o <<Invocation(CmdGetState, {}, TRUE)>>
    ELSE <<Invocation(CmdGetState, {}, TRUE), Invocation(CmdBattery, {}, TRUE)>>
         \o Executed(frp_commands(chipset))
         \o Executed(<<CmdGetvarFrp>>)

Invocations(operation_type, chipset) ==
    GateInvocations \o VerifyInvocations \o HandlerInvocations(operation_type, chipset)

\* start_operation has been called and has not returned.
Pending == [status |-> "pending"]

WaitOperations == {"meta_mode", "frp_remove"}
WaitChipsets == {"MT6789", "MT6833", "MT6893"}

InitWait ==
    /\ \E t \in WaitOperations, c \in WaitChipsets :
         call = [chipset |-> c, operation_type |-> t, op |-> "start_operation"]
    /\ ret = Pending
    /\ cmds = << >>
    /\ events = << >>
    /\ stages = << >>
    /\ results = << >>
    /\ fs = [d \in Dirs |-> NoDir]
    /\ clock = 0
    /\ current_report = NoReport
    /\ last_report = NoReport
    /\ current_device = NoDevice
    /\ ncalls = 0

\* The invocation start_operation is blocked on; clock is the time its
\* timer has counted.
Plan == Invocations(call.operation_type, call.chipset)
Running == Plan[Len(results) + 1]
Blocked == ret = Pending /\ Len(results) < Len(Plan)

Finish(outcome, stop) ==
    /\ results' = Append(results, outcome)
    /\ cmds' = Append(cmds, Running.cmd)
    /\ clock' = 0
    /\ ret' = IF stop \/ Len(results) + 1 = Len(Plan)
              THEN [value |-> outcome, status |-> "returned"]
              ELSE Pending
    /\ UNCHANGED <<call, events, stages, fs, current_report, last_report,
                   current_device, ncalls>>

\* The process exits; the caller goes on to the next invocation or returns.
Respond ==
    /\ Blocked
    /\ \E stop \in {FALSE} \cup {Running.may_stop} : Finish("exited", stop)

\* The timer of subprocess.run(..., timeout=t) runs while the process
\* does; a call made without a timeout has no timer.
Elapse ==
    /\ Blocked
    /\ \E t \in Running.timeout : clock < t
    /\ clock' = clock + 1
    /\ UNCHANGED <<call, ret, cmds, events, stages, results, fs, current_report,
                   last_report, current_device, ncalls>>

\* subprocess.TimeoutExpired: the process is abandoned and the caller's
\* except clause turns it into a failure result.
Expire ==
    /\ Blocked
    /\ clock \in Running.timeout
    /\ Finish("timed out", TRUE)

NextWait == Respond \/ Elapse \/ Expire

\* Timers run and timeouts fire; nothing obliges a process to exit.
SpecWait == InitWait /\ [][NextWait]_vars /\ WF_vars(Elapse) /\ WF_vars(Expire)

\* C24 as stated: every bridge invocation made during start_operation is
\* bounded by a timeout, so start_operation eventually returns even when a
\* process never responds.
C24_EventuallyReturns == <>(ret # Pending)

\* What the timeouts that exist do give: an invocation made with a timeout
\* argument does not block start_operation for ever.
BlockedOnTimed(i) == Blocked /\ Len(results) = i - 1 /\ Running.timeout # {}
TimedInvocationsEnd ==
    \A i \in 1..12 : BlockedOnTimed(i) ~> ~BlockedOnTimed(i)

\* ---------------------------------------------------------------------------
\* Two operations against one device.  create_backup and restore_backup
\* take no lock, so two of them running in two threads interleave at the
\* granularity of their bridge commands.  In this specification
\* current_device is the device itself (its temp file
\* /data/local/tmp/temp.img and the contents of its partitions), stages[w]
\* is the command operation w issues next, results[w] lists what operation
\* w has transferred so far (the contents of each image pulled, or written
\* onto each partition), and ret[w] is its return value.  The bridge is
\* healthy: a command fails only when the temp file it reads is missing.
\* ---------------------------------------------------------------------------

Ops == 1..2
Other(w) == 3 - w
Kinds == {"create_backup", "restore_backup"}
\* (The pair restore/backup is the pair backup/restore with the two
\* operations renamed, and is left out.)

FirstStep(kind) == IF kind = "create_backup" THEN "dump" ELSE "push"

dd_dump_first_partition(device, partition) ==
    [device EXCEPT !.temp = device.partitions[critical_partitions[1]]]

\* adb shell dd if=/dev/block/by-name/{partition} of=/data/local/tmp/temp.img
dd_dump(device, partition) ==
    [device EXCEPT !.temp = device.partitions[partition]]

\* adb push {partition}.img /data/local/tmp/temp.img, from a backup whose
\* images hold their own partitions.
adb_push(device, partition) == [device EXCEPT !.temp = partition]

\* adb shell dd if=/data/local/tmp/temp.img of=/dev/block/by-name/{partition}
dd_write(device, partition) ==
    [device EXCEPT !.partitions[partition] = device.temp]

\* adb shell rm /data/local/tmp/temp.img
rm_temp(device) == [device EXCEPT !.temp = NoneV]

InitShared ==
    /\ \E k1 \in Kinds, k2 \in Kinds :
         /\ <<k1, k2>> # <<"restore_backup", "create_backup">>
         /\ call = [op |-> "concurrent", kinds |-> <<k1, k2>>]
         /\ stages = <<[at |-> 1, step |-> FirstStep(k1)],
                       [at |-> 1, step |-> FirstStep(k2)]>>
    /\ ret = <<Pending, Pending>>
    /\ cmds = << >>
    /\ events = << >>
    /\ results = << << >>, << >> >>
    /\ fs = [d \in Dirs |-> NoDir]
    /\ clock = 1
    /\ current_report = NoReport
    /\ last_report = NoReport
    /\ current_device = [partitions |-> [p \in PartitionSet |-> p], present |-> TRUE,
                         temp |-> NoneV]
    /\ ncalls = 0

At(w, step) == ret[w] = Pending /\ stages[w].step = step
Partition(w) == critical_partitions[stages[w].at]

Fails(w) ==
    /\ ret' = [ret EXCEPT ![w] = [partition |-> Partition(w), status |-> "error"]]
    /\ stages' = [stages EXCEPT ![w].step = "returned"]

\* _backup_partition, first command.
Dump(w) ==
    /\ At(w, "dump")
    /\ current_device' = dd_dump(current_device, Partition(w))
    /\ stages' = [stages EXCEPT ![w].step = "pull"]
    /\ UNCHANGED <<ret, results>>

\* _backup_partition, second command and its returncode check.
Pull(w) ==
    /\ At(w, "pull")
    /\ IF current_device.temp = NoneV
       THEN Fails(w) /\ UNCHANGED results
       ELSE /\ results' = [results EXCEPT ![w] = Append(@, current_device.temp)]
            /\ stages' = [stages EXCEPT ![w].step = "rm"]
            /\ UNCHANGED ret
    /\ UNCHANGED current_device

\* _restore_partition, first command.
Push(w) ==
    /\ At(w, "push")
    /\ current_device' = adb_push(current_device, Partition(w))
    /\ stages' = [stages EXCEPT ![w].step = "write"]
    /\ UNCHANGED <<ret, results>>

\* _restore_partition, second command; its returncode is looked at after
\* the delete.
WriteBack(w) ==
    /\ At(w, "write")
    /\ IF current_device.temp = NoneV
       THEN /\ stages' = [stages EXCEPT ![w].step = "rm after failed dd"]
            /\ UNCHANGED <<results, current_device>>
       ELSE /\ current_device' = dd_write(current_device, Partition(w))
            /\ results' = [results EXCEPT ![w] = Append(@, current_device.temp)]
            /\ stages' = [stages EXCEPT ![w].step = "rm"]
    /\ UNCHANGED ret

\* The delete that ends a partition, and the loop of create_backup or
\* restore_backup going on to the next partition or returning.
RemoveTemp(w) ==
    /\ ret[w] = Pending
    /\ stages[w].step \in {"rm", "rm after failed dd"}
    /\ current_device' = rm_temp(current_device)
    /\ IF stages[w].step = "rm after failed dd"
       THEN Fails(w)
       ELSE IF stages[w].at = NPartitions
       THEN /\ ret' = [ret EXCEPT ![w] = [status |-> "success"]]
            /\ stages' = [stages EXCEPT ![w].step = "returned"]
       ELSE /\ stages' = [stages EXCEPT ![w] =
                            [at |-> @.at + 1, step |-> FirstStep(call.kinds[w])]]
            /\ UNCHANGED ret
    /\ UNCHANGED results

NextShared ==
    \E w \in Ops :
        /\ Dump(w) \/ Pull(w) \/ Push(w) \/ WriteBack(w) \/ RemoveTemp(w)
        /\ UNCHANGED <<call, cmds, events, fs, clock, current_report, last_report, ncalls>>

SpecShared == InitShared /\ [][NextShared]_vars

\* Operation w has put the contents of another partition into an image or
\* onto a partition.
Misplaced(w) ==
    \E k \in 1..Len(results[w]) : results[w][k] # critical_partitions[k]

Started(w) == stages[w] # [at |-> 1, step |-> FirstStep(call.kinds[w])]

\* C25: an image or a partition receives the contents of another partition
\* only through the temp file the two operations share (an operation whose
\* peer has issued no command transfers every partition's own contents);
\* C25_Witness is the interleaving in which that happens and both
\* operations report success.
C25_MisplacedOnlyByInterleaving ==
    call.op = "concurrent" => \A w \in Ops : Misplaced(w) => Started(Other(w))

C25_Witness ==
    /\ call.op = "concurrent"
    /\ ret = <<[status |-> "success"], [status |-> "success"]>>
    /\ \E w \in Ops : Misplaced(w)

\* Every command of the chipset's META sequence met with exit code 0.
MetaCommandsSucceeded ==
    /\ ChipsetHasCommands(call.device_info.chipset)
    /\ \A i \in 1..Len(meta_commands(call.device_info.chipset)) : call.fates[i] = "ok"

\* C26: _get_device_state never returns META, whatever token the bridge
\* prints; so handle_meta_mode never returns status success: it never
\* answers 'already in Meta mode', and when every META command succeeds
\* the state read after them yields 'Failed to enter Meta mode'.
C26_MetaNeverSucceeds ==
    /\ call.op = "_get_device_state" => ret.value # "META"
    /\ call.op = "handle_meta_mode"
         => /\ "status" \in DOMAIN ret => ret.status # "success"
            /\ ret.message # "Device already in Meta mode"
            /\ MetaCommandsSucceeded
                 => /\ ret = [message |-> "Failed to enter Meta mode", status |-> "error"]
                    /\ cmds = <<CmdGetState>> \o meta_commands(call.device_info.chipset)
                                \o <<CmdGetState>>

C26_Witness ==
    /\ call.op = "handle_meta_mode"
    /\ call.state = MetaToken
    /\ call.state2 = MetaToken
    /\ MetaCommandsSucceeded
    /\ ret.message = "Failed to enter Meta mode"

\* The state token the device reports is the same for the gate and for the
\* handler (or the handler is not reached).
TokenUnchanged == HandlerState(call.handler) \in {NoneV, call.bridge.state}

\* C27: with no expected_state in device_info and a state token that does
\* not change during the call, start_operation("frp_remove") never issues
\* a fastboot erase: the gate passes only on the token "device", and
\* handle_frp goes on only when the token maps to Fastboot.
C27_NoEraseWhileTokenUnchanged ==
    (/\ call.op = "start_operation"
     /\ call.operation_type = "frp_remove"
     /\ call.device_info.expected_state = NoneV
     /\ TokenUnchanged)
        => FrpErases = {}

C27_Witness ==
    /\ call.op = "start_operation"
    /\ call.operation_type = "frp_remove"
    /\ call.device_info.expected_state = NoneV
    /\ GateAndVerificationPassed
    /\ call.bridge.state = "device"
    /\ HandlerState(call.handler) = "device"
    /\ ret = [message |-> "FRP operation safety check failed", status |-> "error"]
    /\ FrpErases = {}

\* start_operation returned what handle_error or _handle_backup_error
\* built.
ErrorHandled ==
    /\ call.op = "start_operation"
    /\ "recovery_possible" \in DOMAIN ret \/ "recoverable" \in DOMAIN ret

RecoveryVerdict ==
    IF "recovery_possible" \in DOMAIN ret THEN ret.recovery_possible ELSE ret.recoverable

\* C28: handle_error and _handle_backup_error both run
\* _check_recovery_possible: it lists the devices and, whenever that output
\* contains "device" (and only then), issues adb reboot recovery; the
\* recovery_possible / recoverable field is true exactly when that reboot
\* exits with code 0.
C28_ErrorHandlingReboots ==
    ErrorHandled =>
        LET n == Len(cmds)
        IN  /\ (HandlerRecovery(call.handler).devices = "device") <=> (CmdRebootRecovery \in Range(cmds))
            /\ IF HandlerRecovery(call.handler).devices = "device"
               THEN /\ SubSeq(cmds, n - 1, n) = <<CmdDevices, CmdRebootRecovery>>
                    /\ RecoveryVerdict <=> (HandlerRecovery(call.handler).reboot = "ok")
               ELSE /\ cmds[n] = CmdDevices
                    /\ ~RecoveryVerdict

C28_Witness ==
    /\ ErrorHandled
    /\ call.operation_type = "backup"
    /\ HandlerRecovery(call.handler) = [devices |-> "device", reboot |-> "ok"]
    /\ ret.recoverable
    /\ cmds[Len(cmds)] = CmdRebootRecovery

\* The same for handle_error.
RebootByHandleError ==
    /\ ErrorHandled
    /\ call.operation_type = "restore"
    /\ ret.recovery_possible
    /\ cmds[Len(cmds)] = CmdRebootRecovery

\* Backups, and restores from the directory a backup wrote, within one
\* second of the wall clock.
NextTransfer == CreateBackup \/ RestoreBackup

SpecTransfer == Init /\ [][NextTransfer]_vars

Deletes == {i \in 1..Len(cmds) : cmds[i] = CmdRmTemp}

Succeeded == {i \in 1..Len(results) : results[i].result.success}

\* The last n commands of the partition loop (the commands of a
\* recovery probe that follows a create_backup loop set aside).
LastCmds(n) ==
    LET c == IF call.op = "create_backup" THEN BackupCmds ELSE cmds
    IN  SubSeq(c, Len(c) - n + 1, Len(c))

DeleteAfterFailedWrite ==
    /\ call.op = "restore_backup"
    /\ Len(results) = 2
    /\ results[2].result = [error |-> "dd_fail", success |-> FALSE]
    /\ Cardinality(Deletes) = 2

NoDeleteAfterFailedPush ==
    /\ call.op = "restore_backup"
    /\ Len(results) = 2
    /\ results[2].result = [error |-> "push_fail", success |-> FALSE]
    /\ Cardinality(Deletes) = 1

\* The command sequence start_operation's handler runs for the chipset.
HandlerCommands ==
    IF call.operation_type = "meta_mode"
    THEN meta_commands(call.device_info.chipset)
    ELSE frp_commands(call.device_info.chipset)

\* The handler was reached and got as far as its command sequence.
SequenceStarted ==
    /\ call.op = "start_operation"
    /\ call.operation_type \in {"meta_mode", "frp_remove"}
    /\ GateAndVerificationPassed
    /\ ChipsetHasCommands(call.device_info.chipset)
    /\ call.operation_type = "frp_remove"
         => /\ call.handler.state = "fastboot"
            /\ call.handler.battery.ok
            /\ call.handler.battery.level >= FrpMinBattery

\* The reads the handler makes before its sequence.
HandlerReads ==
    IF call.operation_type = "meta_mode" THEN <<CmdGetState>> ELSE <<CmdGetState, CmdBattery>>

\* The commands of the gate and of the device verification.
PipelineReads == <<CmdBattery, CmdDevices, CmdGetState, CmdLsParts, CmdDf, CmdDevices>>

FailedAt(i) ==
    /\ i \in 1..Len(HandlerCommands)
    /\ call.handler.cmds[i] # "ok"
    /\ \A j \in 1..(i - 1) : call.handler.cmds[j] = "ok"

\* C30: the FRP and META sequences are fail-fast.  When the i-th command
\* fails, no later command of the sequence and no post-verification query
\* is issued, the handler returns _execute_command's failure result
\* unchanged (success false, a message, no status field), and the report
\* finalized for the operation records status "unknown".
C30_SequenceFailFast ==
    SequenceStarted =>
        \A i \in 1..Len(HandlerCommands) :
            FailedAt(i) =>
                LET x == _execute_command(HandlerCommands[i], call.handler.cmds[i])
                    issued == SubSeq(HandlerCommands, 1, IF x.ran THEN i ELSE i - 1)
                IN  /\ ret = x.result
                    /\ ~ret.success
                    /\ "message" \in DOMAIN ret
                    /\ "status" \notin DOMAIN ret
                    /\ cmds = PipelineReads \o HandlerReads \o issued
                    /\ current_report = NoReport
                    /\ last_report.operation_type = call.operation_type
                    /\ last_report.status = "unknown"

C30_Witness ==
    /\ SequenceStarted
    /\ call.operation_type = "frp_remove"
    /\ FailedAt(2)
    /\ ret.message = "Command failed"
    /\ "status" \notin DOMAIN ret
    /\ cmds[Len(cmds)] = Cmd("fastboot", "erase", "config")
    /\ last_report.status = "unknown"

\* The same for the META sequence.
MetaSequenceAborted ==
    /\ SequenceStarted
    /\ call.operation_type = "meta_mode"
    /\ FailedAt(1)
    /\ cmds[Len(cmds)] = Cmd("adb", "reboot meta", "-")
    /\ last_report.status = "unknown"

====
